---- MODULE Spec2Model ----
(***************************************************************************)
(* The authorization and integrity layer of the Driplo marketplace schema  *)
(* (SUPABASE_COMPLETE_STRUCTURE_FINAL.md): tables as sets of rows, the     *)
(* row-level-security policies as predicates over (auth.uid(), row), the   *)
(* trigger functions as part of the statement that fires them.             *)
(*                                                                         *)
(* Row-level security is evaluated as PostgreSQL evaluates permissive      *)
(* policies: the USING expressions of the policies of one command are      *)
(* OR'd, the WITH CHECK expressions are OR'd, a policy without WITH CHECK  *)
(* uses its USING expression as the check, a command without a policy      *)
(* admits no row, and an UPDATE or DELETE that names its row in the WHERE  *)
(* clause also needs the row to pass the SELECT policies.                  *)
(***************************************************************************)
EXTENDS Integers, Sequences, FiniteSets, TLC

VARIABLES
    now,                      \* NOW(): the clock of the database
    auth_users,               \* auth.users rows [id, email]
    profiles,                 \* profiles rows
    shopping_carts,           \* shopping_carts rows
    user_stats_summary,       \* user_stats_summary rows
    profile_setup_progress,   \* profile_setup_progress rows
    admin_approvals,          \* admin_approvals rows
    admin_audit_log,          \* admin_audit_log rows
    listings,                 \* listings rows
    orders,                   \* orders rows
    generated,                \* per session: the order number generate_order_number() returned
    tables,                   \* the other tables: table name -> rows
    schema,                   \* the replay of the schema document: [pos, objects, failed]
    register,                 \* the register page: its fields and the run of handleRegister
    storage_objects,          \* storage.objects rows [bucket_id, name, owner]
    cart_calls,               \* the running calls of get_or_create_cart: call -> [pc, user_uuid, cart_id]
    last                      \* the last statement: [op, caller, ok, arg, rows]

vars == <<now, auth_users, profiles, shopping_carts, user_stats_summary,
          profile_setup_progress, admin_approvals, admin_audit_log,
          listings, orders, generated, tables, schema,
                   register, storage_objects, cart_calls, last>>

(***************************************************************************)
(* Bounds of the model.                                                    *)
(***************************************************************************)
MaxUsers == 2
MaxTime == 2
MaxListings == 2
MaxOrders == 1
SuffixRange == 2
MaxAuditRows == 1
MaxApprovals == 1

\* SQL NULL for uuid columns and auth.uid() of an unauthenticated request.
NULL == 0
\* SQL NULL for timestamp columns.
NoTime == 0 - 1

UserIds == 1..MaxUsers
\* The requesters of the standard path: authenticated users and the anonymous one.
Principals == UserIds \cup {NULL}
Times == 0..MaxTime

user_role == {"user", "admin", "moderator"}

order_status == {"pending_payment", "payment_processing", "payment_failed", "paid",
                 "preparing", "shipped", "in_transit", "delivered", "completed",
                 "cancelled", "refunded"}

\* listings.status is VARCHAR(20) DEFAULT 'draft' with no CHECK.
ListingStatuses == {"draft", "active", "sold", "reserved", "archived"}

NoStatement == [op |-> "none", caller |-> NULL, ok |-> TRUE, arg |-> NULL, rows |-> {}]

Statement(op, caller, ok, arg, rows) ==
    [op |-> op, caller |-> caller, ok |-> ok, arg |-> arg, rows |-> rows]

\* The tables held in the variable tables.
OtherTables == {"query_performance_log", "database_health_metrics", "slow_queries",
                "conversations", "disputes", "returns", "active_user_sessions",
                "brand_verification_requests", "shipping_addresses"}

NoRows == [t \in OtherTables |-> {}]

\* The schema document before its first statement has run.
NotReplayed == [pos |-> 0, objects |-> {}, failed |-> {}]

\* No call of get_or_create_cart is running.
NoCalls == << >>

\* The fields of the register page as the component declares them: every
\* text is empty (a text is a sequence of characters), the terms are not
\* agreed to and the account is personal.
EmptyFields ==
    [email |-> << >>, password |-> << >>, confirmPassword |-> << >>,
     username |-> << >>, fullName |-> << >>, agreedToTerms |-> FALSE,
     accountType |-> "personal", brandName |-> << >>, brandCategory |-> << >>,
     brandWebsite |-> << >>]

\* The register page after it loaded: handleRegister has not run, nothing
\* was sent, no toast is shown and the page is /register.
PageLoaded ==
    [pc |-> "idle", fields |-> EmptyFields, loading |-> FALSE, issues |-> {},
     signUp |-> << >>, toasts |-> {}, success |-> FALSE]

(***************************************************************************)
(* SQL helpers.                                                            *)
(***************************************************************************)
\* a = b of SQL: not true when either side is NULL.
SqlEq(a, b) == a # NULL /\ b # NULL /\ a = b

\* EXISTS (SELECT 1 FROM profiles WHERE id = auth.uid() AND role = 'admin')
RoleIsAdmin(uid) == \E p \in profiles : SqlEq(p.id, uid) /\ p.role = "admin"

\* is_admin(user_id)
is_admin(user_id) == RoleIsAdmin(user_id)

\* uuid_generate_v4() / gen_random_uuid(): an id no row of the table has.
FreshIds(rows, max) == {i \in 1..max : \A r \in rows : r.id # i}

(***************************************************************************)
(* Text functions used by handle_new_user.                                 *)
(***************************************************************************)
\* LOWER(text), on the alphabet of the model.
LowerChar(c) ==
    CASE c = "A" -> "a"
      [] c = "B" -> "b"
      [] OTHER -> c

LOWER(s) == [i \in 1..Len(s) |-> LowerChar(s[i])]

\* SPLIT_PART(text, '@', 1): the text before the first '@'.
RECURSIVE SPLIT_PART_1(_)
SPLIT_PART_1(s) ==
    IF s = <<>> \/ Head(s) = "@" THEN <<>> ELSE <<Head(s)>> \o SPLIT_PART_1(Tail(s))

\* LOWER(SPLIT_PART(NEW.email, '@', 1))
username(email) == LOWER(SPLIT_PART_1(email))

(***************************************************************************)
(* Profiles seeded by earlier sign-ups, for the specifications that start  *)
(* from a populated database.                                              *)
(***************************************************************************)
Profile(id, email, uname, role) ==
    [id |-> id, email |-> email, username |-> uname, is_admin |-> FALSE,
     role |-> role, setup_completed |-> FALSE, setup_completed_at |-> NoTime]

\* Text is a sequence of characters. User i signed up as <letter i>@x.
SeedLetters == <<"a", "b", "c", "d">>

SeedEmail(i) == <<SeedLetters[i], "@", "x">>

SeededUsers == {[id |-> i, email |-> SeedEmail(i)] : i \in UserIds}

SeededProfiles(roleOf) ==
    {Profile(i, SeedEmail(i), username(SeedEmail(i)), roleOf[i]) : i \in UserIds}

\* expires_at DEFAULT NOW() + INTERVAL '30 days', in clock ticks.
CartLifetime == 1

SeededCarts == {[id |-> i, user_id |-> i, expires_at |-> CartLifetime] : i \in UserIds}

SeededStats == {[user_id |-> i, total_sales |-> 0, total_purchases |-> 0] : i \in UserIds}

(***************************************************************************)
(* Listings: policies (section 5.2) and statements.                        *)
(***************************************************************************)
\* "Listings are viewable by everyone": FOR SELECT USING (status IN (...))
ListingsSelectUsing(uid, l) == l.status \in {"active", "sold", "reserved"}

\* "Users can create their own listings": FOR INSERT WITH CHECK (auth.uid() = seller_id)
ListingsInsertCheck(uid, l) == SqlEq(uid, l.seller_id)

\* "Users can update their own listings": FOR UPDATE USING (auth.uid() = seller_id)
ListingsUpdateUsingAnyUser(uid, l) == uid # NULL

ListingsUpdateUsing(uid, l) == SqlEq(uid, l.seller_id)

\* "Users can delete their own listings": FOR DELETE USING (auth.uid() = seller_id)
ListingsDeleteUsing(uid, l) == SqlEq(uid, l.seller_id)

udbListings == <<now, auth_users, profiles, shopping_carts, user_stats_summary,
                 profile_setup_progress, admin_approvals, admin_audit_log,
                 orders, generated, tables, schema,
                   register, storage_objects, cart_calls>>

\* SELECT * FROM listings, by uid: the rows the SELECT policies let through.
SelectListings(uid) ==
    /\ last' = Statement("select_listings", uid, TRUE, NULL,
                         {l \in listings : ListingsSelectUsing(uid, l)})
    /\ UNCHANGED <<listings, udbListings>>

\* INSERT INTO listings (seller_id, status) VALUES (...), by uid.
InsertListing(uid, seller_id, status) ==
    /\ FreshIds(listings, MaxListings) # {}
    /\ \E p \in profiles : p.id = seller_id       \* seller_id REFERENCES profiles(id)
    /\ LET id == CHOOSE i \in FreshIds(listings, MaxListings) :
                     \A j \in FreshIds(listings, MaxListings) : i <= j
           row == [id |-> id, seller_id |-> seller_id, status |-> status]
           ok == ListingsInsertCheck(uid, row)
       IN /\ listings' = IF ok THEN listings \cup {row} ELSE listings
          /\ last' = Statement("insert_listing", uid, ok, id, {})
    /\ UNCHANGED udbListings

\* UPDATE listings SET seller_id = ..., status = ... WHERE id = ..., by uid.
UpdateListing(uid, l, seller_id, status) ==
    /\ l \in listings
    /\ \E p \in profiles : p.id = seller_id
    /\ LET new == [l EXCEPT !.seller_id = seller_id, !.status = status]
           seen == ListingsUpdateUsing(uid, l) /\ ListingsSelectUsing(uid, l)
           ok == ListingsUpdateUsing(uid, new) /\ ListingsSelectUsing(uid, new)
       IN /\ listings' = IF seen /\ ok THEN (listings \ {l}) \cup {new} ELSE listings
          /\ last' = Statement("update_listing", uid, seen /\ ok, l.id, {})
    /\ UNCHANGED udbListings

\* DELETE FROM listings WHERE id = ..., by uid.
DeleteListing(uid, l) ==
    /\ l \in listings
    /\ LET seen == ListingsDeleteUsing(uid, l) /\ ListingsSelectUsing(uid, l)
       IN /\ listings' = IF seen THEN listings \ {l} ELSE listings
          /\ last' = Statement("delete_listing", uid, seen, l.id, {})
    /\ UNCHANGED udbListings

InitListings ==
    /\ now = 0
    /\ auth_users = SeededUsers
    /\ \E roleOf \in [UserIds -> user_role] : profiles = SeededProfiles(roleOf)
    /\ shopping_carts = SeededCarts
    /\ user_stats_summary = SeededStats
    /\ profile_setup_progress = {}
    /\ admin_approvals = {}
    /\ admin_audit_log = {}
    /\ listings = {}
    /\ orders = {}
    /\ generated = [u \in UserIds |-> <<>>]
    /\ tables = NoRows
    /\ schema = NotReplayed
    /\ register = PageLoaded
    /\ storage_objects = {}
    /\ cart_calls = NoCalls
    /\ last = NoStatement

NextListings ==
    \/ \E uid \in Principals : SelectListings(uid)
    \/ \E uid \in Principals, s \in UserIds, st \in ListingStatuses : InsertListing(uid, s, st)
    \/ \E uid \in Principals, l \in listings, s \in UserIds, st \in ListingStatuses :
           UpdateListing(uid, l, s, st)
    \/ \E uid \in Principals, l \in listings : DeleteListing(uid, l)

SpecListings == InitListings /\ [][NextListings]_vars

(***************************************************************************)
(* C1: a SELECT on listings by principal P returns listing L if and only   *)
(* if L.status is active, sold or reserved, or P is L's seller, or P's     *)
(* role is admin.                                                          *)
(***************************************************************************)
C1_ListingVisibleIff ==
    last.op = "select_listings" =>
        \A l \in listings :
            l \in last.rows <=>
                \/ l.status \in {"active", "sold", "reserved"}
                \/ SqlEq(last.caller, l.seller_id)
                \/ RoleIsAdmin(last.caller)

(***************************************************************************)
(* Principals: sign-up with its bootstrap trigger, promotion, profile      *)
(* updates, and the admin tables.                                          *)
(***************************************************************************)
\* The e-mail addresses that sign up.
Emails == { <<"A", "@", "x">>, <<"a", "@", "y">>, <<"b", "@", "x">> }

\* The insert of handle_new_user that raises: 0 for none, k for the k-th insert
\* failing for a reason outside the schema (a server error, a cancelled statement).
Faults == 0..3

\* The three inserts of handle_new_user for the auth.users row NEWROW, in order, each
\* against the rows the ones before it left. raised: an insert raised, by a
\* constraint of its table or by the fault.
handle_new_user(NEWROW, fault) ==
    LET prow == Profile(NEWROW.id, NEWROW.email, username(NEWROW.email), "user")
        e1 == \/ fault = 1
              \/ \E p \in profiles : p.id = prow.id \/ p.username = prow.username
        profiles1 == IF e1 THEN profiles ELSE profiles \cup {prow}
        cids == FreshIds(shopping_carts, MaxUsers)
        crow == [id |-> IF cids = {} THEN NULL
                        ELSE CHOOSE i \in cids : \A j \in cids : i <= j,
                 user_id |-> NEWROW.id, expires_at |-> now + CartLifetime]
        e2 == ~e1 /\ \/ fault = 2
                     \/ \A p \in profiles1 : p.id # crow.user_id
                     \/ \E c \in shopping_carts : c.user_id = crow.user_id
        carts1 == IF e1 \/ e2 THEN shopping_carts ELSE shopping_carts \cup {crow}
        srow == [user_id |-> NEWROW.id, total_sales |-> 0, total_purchases |-> 0]
        e3 == ~e1 /\ ~e2 /\ \/ fault = 3
                            \/ \A p \in profiles1 : p.id # srow.user_id
                            \/ \E t \in user_stats_summary : t.user_id = srow.user_id
        stats1 == IF e1 \/ e2 \/ e3 THEN user_stats_summary
                  ELSE user_stats_summary \cup {srow}
    IN [raised |-> e1 \/ e2 \/ e3,
        raisedAt |-> IF e1 THEN 1 ELSE IF e2 THEN 2 ELSE IF e3 THEN 3 ELSE 0,
        profiles |-> profiles1,
        shopping_carts |-> carts1, user_stats_summary |-> stats1]

udbUsers == <<now, profile_setup_progress, listings, orders, generated, tables, schema,
                   register, storage_objects, cart_calls>>

\* INSERT INTO auth.users (a sign-up), which fires on_auth_user_created AFTER INSERT
\* FOR EACH ROW: the insert and the trigger are one statement, undone as a whole
\* when the trigger raises.
InsertAuthUserNoRollback(email, fault) ==
    /\ FreshIds(auth_users, MaxUsers) # {}
    /\ \A u \in auth_users : u.email # email
    /\ LET ids == FreshIds(auth_users, MaxUsers)
           NEWROW == [id |-> CHOOSE i \in ids : \A j \in ids : i <= j, email |-> email]
           t == handle_new_user(NEWROW, fault)
       IN /\ auth_users' = IF t.raised THEN auth_users ELSE auth_users \cup {NEWROW}
          /\ profiles' = t.profiles
          /\ shopping_carts' = t.shopping_carts
          /\ user_stats_summary' = t.user_stats_summary
          /\ last' = Statement("insert_auth_user", NULL, ~t.raised,
                               <<NEWROW.id, t.raisedAt>>, {})
    /\ UNCHANGED <<admin_approvals, admin_audit_log, udbUsers>>

InsertAuthUser(email, fault) ==
    /\ FreshIds(auth_users, MaxUsers) # {}
    /\ \A u \in auth_users : u.email # email
    /\ LET ids == FreshIds(auth_users, MaxUsers)
           NEWROW == [id |-> CHOOSE i \in ids : \A j \in ids : i <= j, email |-> email]
           t == handle_new_user(NEWROW, fault)
       IN /\ auth_users' = IF t.raised THEN auth_users ELSE auth_users \cup {NEWROW}
          /\ profiles' = IF t.raised THEN profiles ELSE t.profiles
          /\ shopping_carts' = IF t.raised THEN shopping_carts ELSE t.shopping_carts
          /\ user_stats_summary' = IF t.raised THEN user_stats_summary
                                   ELSE t.user_stats_summary
          /\ last' = Statement("insert_auth_user", NULL, ~t.raised,
                               <<NEWROW.id, t.raisedAt>>, {})
    /\ UNCHANGED <<admin_approvals, admin_audit_log, udbUsers>>

\* "Anyone can view profiles": FOR SELECT USING (true)
ProfilesSelectUsing(uid, p) == TRUE

\* "Users can insert own profile": FOR INSERT WITH CHECK (auth.uid() = id)
ProfilesInsertCheck(uid, p) == SqlEq(uid, p.id)

\* INSERT INTO profiles (id, email, username) VALUES (...), by uid.
InsertProfile(uid, id, email) ==
    /\ LET row == Profile(id, email, username(email), "user")
           ok == /\ ProfilesInsertCheck(uid, row)
                 /\ \E u \in auth_users : u.id = row.id       \* id REFERENCES auth.users(id)
                 /\ \A p \in profiles : p.id # row.id         \* PRIMARY KEY
                 /\ \A p \in profiles : p.username # row.username   \* UNIQUE
       IN /\ profiles' = IF ok THEN profiles \cup {row} ELSE profiles
          /\ last' = Statement("insert_profile", uid, ok, id, {})
    /\ UNCHANGED <<auth_users, shopping_carts, user_stats_summary, admin_approvals,
                   admin_audit_log, udbUsers>>

\* "Users can create their own cart": FOR INSERT WITH CHECK (auth.uid() = user_id)
CartsInsertCheck(uid, c) == SqlEq(uid, c.user_id)

\* INSERT INTO shopping_carts (user_id) VALUES (...), by uid.
InsertCart(uid, user_id) ==
    /\ LET ids == FreshIds(shopping_carts, MaxUsers + 1)
           row == [id |-> CHOOSE i \in ids : \A j \in ids : i <= j,
                   user_id |-> user_id, expires_at |-> now + CartLifetime]
           ok == /\ CartsInsertCheck(uid, row)
                 /\ \E p \in profiles : p.id = row.user_id    \* REFERENCES profiles(id)
                 /\ \A c \in shopping_carts : c.user_id # row.user_id   \* UNIQUE(user_id)
       IN /\ shopping_carts' = IF ok THEN shopping_carts \cup {row} ELSE shopping_carts
          /\ last' = Statement("insert_cart", uid, ok, user_id, {})
    /\ UNCHANGED <<auth_users, profiles, user_stats_summary, admin_approvals,
                   admin_audit_log, udbUsers>>

\* "Users can update own profile": FOR UPDATE USING (auth.uid() = id)
ProfilesUpdateUsing(uid, p) == SqlEq(uid, p.id)

\* UPDATE profiles SET role, is_admin, setup_completed, setup_completed_at
\* WHERE id = p.id, by uid. The policy names no column, so every column is writable.
UpdateProfile(uid, p, role, isadmin, completed, completed_at) ==
    /\ p \in profiles
    /\ LET new == [p EXCEPT !.role = role, !.is_admin = isadmin,
                            !.setup_completed = completed,
                            !.setup_completed_at = completed_at]
           seen == ProfilesUpdateUsing(uid, p) /\ ProfilesSelectUsing(uid, p)
           ok == ProfilesUpdateUsing(uid, new) /\ ProfilesSelectUsing(uid, new)
       IN /\ new # p
          /\ profiles' = IF seen /\ ok THEN (profiles \ {p}) \cup {new} ELSE profiles
          /\ last' = Statement("update_profile", uid, seen /\ ok, p.id, {})
    /\ UNCHANGED <<now, auth_users, shopping_carts, user_stats_summary,
                   profile_setup_progress, admin_approvals, admin_audit_log,
                   listings, orders, generated, tables, schema,
                   register, storage_objects, cart_calls>>

\* The row promote_to_admin logs: INSERT INTO admin_approvals (request_type,
\* request_id, admin_id, action, ...) VALUES ('user_promotion', target_user_id,
\* auth.uid(), 'approve', ...).
PromotionRowSwapped(id, target_user_id, uid) ==
    [id |-> id, request_type |-> "user_promotion", request_id |-> uid,
     admin_id |-> target_user_id, action |-> "approve"]

PromotionRow(id, target_user_id, uid) ==
    [id |-> id, request_type |-> "user_promotion", request_id |-> target_user_id,
     admin_id |-> uid, action |-> "approve"]

\* SELECT promote_to_admin(user_email), by uid. SECURITY DEFINER: its statements
\* bypass row-level security. A raise undoes the whole call.
promote_to_admin(uid, user_email) ==
    /\ FreshIds(admin_approvals, MaxApprovals) # {}
    /\ LET found == {u \in auth_users : u.email = user_email}
           target_user_id == IF found = {} THEN NULL ELSE (CHOOSE u \in found : TRUE).id
           ids == FreshIds(admin_approvals, MaxApprovals)
           arow == PromotionRow(CHOOSE i \in ids : \A j \in ids : i <= j,
                                target_user_id, uid)
           \* RAISE EXCEPTION 'User with email % not found'
           notFound == target_user_id = NULL
           \* admin_id UUID REFERENCES auth.users(id) NOT NULL
           badAdmin == arow.admin_id = NULL \/ \A u \in auth_users : u.id # arow.admin_id
           raised == notFound \/ badAdmin
       IN /\ profiles' = IF raised THEN profiles
                         ELSE {IF p.id = target_user_id THEN [p EXCEPT !.role = "admin"]
                               ELSE p : p \in profiles}
          /\ admin_approvals' = IF raised THEN admin_approvals
                                ELSE admin_approvals \cup {arow}
          /\ last' = Statement("promote_to_admin", uid, ~raised, target_user_id, {})
    /\ UNCHANGED <<auth_users, shopping_carts, user_stats_summary, admin_audit_log,
                   udbUsers>>

\* "Only admins can view audit log": FOR SELECT USING (EXISTS (... role = 'admin'))
AuditLogSelectUsing(uid, r) == RoleIsAdmin(uid)

\* SELECT * FROM admin_audit_log, by uid.
SelectAuditLog(uid) ==
    /\ last' = Statement("select_admin_audit_log", uid, TRUE, NULL,
                         {r \in admin_audit_log : AuditLogSelectUsing(uid, r)})
    /\ UNCHANGED <<auth_users, profiles, shopping_carts, user_stats_summary,
                   admin_approvals, admin_audit_log, udbUsers>>

\* INSERT INTO admin_audit_log by the service role, which bypasses row-level
\* security (the table has no INSERT policy).
ServiceInsertAuditLog(admin_id) ==
    /\ FreshIds(admin_audit_log, MaxAuditRows) # {}
    /\ \E p \in profiles : p.id = admin_id        \* admin_id REFERENCES profiles(id)
    /\ LET ids == FreshIds(admin_audit_log, MaxAuditRows)
       IN admin_audit_log' = admin_audit_log \cup
              {[id |-> CHOOSE i \in ids : \A j \in ids : i <= j, admin_id |-> admin_id]}
    /\ last' = Statement("service_insert_audit_log", NULL, TRUE, admin_id, {})
    /\ UNCHANGED <<auth_users, profiles, shopping_carts, user_stats_summary,
                   admin_approvals, udbUsers>>

\* The users a request can be authenticated as, and the anonymous requester.
Callers == {u.id : u \in auth_users} \cup {NULL}

InitUsers ==
    /\ now = 0
    /\ auth_users = {}
    /\ profiles = {}
    /\ shopping_carts = {}
    /\ user_stats_summary = {}
    /\ profile_setup_progress = {}
    /\ admin_approvals = {}
    /\ admin_audit_log = {}
    /\ listings = {}
    /\ orders = {}
    /\ generated = [u \in UserIds |-> <<>>]
    /\ tables = NoRows
    /\ schema = NotReplayed
    /\ register = PageLoaded
    /\ storage_objects = {}
    /\ cart_calls = NoCalls
    /\ last = NoStatement

NextUsers ==
    \/ \E e \in Emails, f \in Faults : InsertAuthUser(e, f)
    \/ \E uid \in Callers, u \in auth_users : InsertProfile(uid, u.id, u.email)
    \/ \E uid \in Callers, id \in UserIds : InsertCart(uid, id)
    \/ \E uid \in Callers, e \in Emails : promote_to_admin(uid, e)
    \/ \E uid \in Callers, p \in profiles, r \in user_role :
           UpdateProfile(uid, p, r, p.is_admin, p.setup_completed, p.setup_completed_at)
    \/ \E uid \in Callers : SelectAuditLog(uid)
    \/ \E a \in UserIds : ServiceInsertAuditLog(a)

SpecUsers == InitUsers /\ [][NextUsers]_vars

(***************************************************************************)
(* C3: a principal whose role is user reads no row of admin_audit_log;     *)
(* once promote_to_admin has completed for A's e-mail, A passes the        *)
(* audit-log SELECT policy (a SELECT by an admin returns every row) and    *)
(* admin_approvals holds a row ('user_promotion', request_id = A,          *)
(* 'approve') recording the promotion.                                     *)
(***************************************************************************)
RoleOf(uid) == {p.role : p \in {q \in profiles : q.id = uid}}

C3_AuditLogAfterPromotion ==
    /\ (last.op = "select_admin_audit_log" /\ RoleOf(last.caller) = {"user"})
           => last.rows = {}
    /\ (last.op = "select_admin_audit_log" /\ RoleOf(last.caller) = {"admin"})
           => last.rows = admin_audit_log
    /\ (last.op = "promote_to_admin" /\ last.ok)
           => /\ RoleOf(last.arg) = {"admin"}
              /\ \A r \in admin_audit_log : AuditLogSelectUsing(last.arg, r)
              /\ \E a \in admin_approvals :
                     /\ a.request_type = "user_promotion"
                     /\ a.request_id = last.arg
                     /\ a.action = "approve"

\* A promoted principal reads a row of the audit log, its promotion on record.
C3_Witness ==
    /\ last.op = "select_admin_audit_log"
    /\ last.rows # {}
    /\ \E a \in admin_approvals :
           /\ a.request_type = "user_promotion"
           /\ a.request_id = last.caller
           /\ a.action = "approve"
           /\ a.admin_id # last.caller

(***************************************************************************)
(* C4: a sign-up yields exactly one profile, one shopping cart and one     *)
(* stats-summary row for the new principal, or, when an insert of          *)
(* handle_new_user raises, none of them and no auth.users row: in every    *)
(* state a principal has all of its rows, one of each, or none.            *)
(***************************************************************************)
RowsOf(id) ==
    <<Cardinality({u \in auth_users : u.id = id}),
      Cardinality({p \in profiles : p.id = id}),
      Cardinality({c \in shopping_carts : c.user_id = id}),
      Cardinality({t \in user_stats_summary : t.user_id = id})>>

C4_BootstrapAllOrNothing ==
    /\ \A id \in UserIds : RowsOf(id) \in {<<0, 0, 0, 0>>, <<1, 1, 1, 1>>}
    /\ last.op = "insert_auth_user" =>
           RowsOf(last.arg[1]) = IF last.ok THEN <<1, 1, 1, 1>> ELSE <<0, 0, 0, 0>>

\* The insert of the cart raised, after the insert of the profile had run.
C4_Witness ==
    /\ last.op = "insert_auth_user"
    /\ ~last.ok
    /\ last.arg[2] = 2
    /\ RowsOf(last.arg[1]) = <<0, 0, 0, 0>>

(***************************************************************************)
(* Onboarding: profile_setup_progress with its completion trigger.         *)
(***************************************************************************)
\* step_name is TEXT: the three steps the trigger names, and one it does not.
StepNames == {"avatar_selected", "profile_info_completed", "account_type_selected",
              "brand_info_added"}

\* "Users can view own setup progress": FOR SELECT USING (auth.uid() = user_id)
SetupSelectUsing(uid, r) == SqlEq(uid, r.user_id)

\* "Users can insert own setup progress": FOR INSERT WITH CHECK (auth.uid() = user_id)
SetupInsertCheck(uid, r) == SqlEq(uid, r.user_id)

\* "Users can update own setup progress": FOR UPDATE USING (auth.uid() = user_id)
SetupUpdateUsing(uid, r) == SqlEq(uid, r.user_id)

\* update_setup_completion() for the written row NEWROW, run as the invoker uid
\* (the function is not SECURITY DEFINER) on the table after the write: the
\* profiles it leaves.
update_setup_completion(uid, NEWROW, progress) ==
    LET visible == {r \in progress : SetupSelectUsing(uid, r)}
        done(step) == \E r \in visible :
                          r.user_id = NEWROW.user_id /\ r.step_name = step /\ r.completed
    IN IF /\ NEWROW.step_name \in {"avatar_selected", "profile_info_completed",
                                   "account_type_selected"}
          /\ done("avatar_selected")
          /\ done("profile_info_completed")
       THEN {IF /\ p.id = NEWROW.user_id
                /\ ProfilesUpdateUsing(uid, p) /\ ProfilesSelectUsing(uid, p)
             THEN [p EXCEPT !.setup_completed = TRUE, !.setup_completed_at = now]
             ELSE p : p \in profiles}
       ELSE profiles

udbSetup == <<now, auth_users, shopping_carts, user_stats_summary, admin_approvals,
              admin_audit_log, listings, orders, generated, tables, schema,
                   register, storage_objects, cart_calls>>

\* INSERT INTO profile_setup_progress (user_id, step_name, completed) VALUES (...),
\* by uid, with trigger_update_setup_completion AFTER INSERT.
InsertSetupProgress(uid, user_id, step_name, completed) ==
    /\ LET NEWROW == [user_id |-> user_id, step_name |-> step_name,
                      completed |-> completed]
           ok == /\ SetupInsertCheck(uid, NEWROW)
                 /\ \E u \in auth_users : u.id = user_id    \* REFERENCES auth.users(id)
                 /\ \A r \in profile_setup_progress :         \* UNIQUE(user_id, step_name)
                        ~(r.user_id = user_id /\ r.step_name = step_name)
           after == profile_setup_progress \cup {NEWROW}
       IN /\ profile_setup_progress' = IF ok THEN after ELSE profile_setup_progress
          /\ profiles' = IF ok THEN update_setup_completion(uid, NEWROW, after)
                         ELSE profiles
          /\ last' = Statement("insert_setup_progress", uid, ok, user_id, {})
    /\ UNCHANGED udbSetup

\* UPDATE profile_setup_progress SET completed = ... WHERE user_id = ... AND
\* step_name = ..., by uid, with trigger_update_setup_completion AFTER UPDATE.
UpdateSetupProgress(uid, r, completed) ==
    /\ r \in profile_setup_progress
    /\ LET NEWROW == [r EXCEPT !.completed = completed]
           seen == SetupUpdateUsing(uid, r) /\ SetupSelectUsing(uid, r)
           ok == seen /\ SetupUpdateUsing(uid, NEWROW) /\ SetupSelectUsing(uid, NEWROW)
           after == (profile_setup_progress \ {r}) \cup {NEWROW}
       IN /\ profile_setup_progress' = IF ok THEN after ELSE profile_setup_progress
          /\ profiles' = IF ok THEN update_setup_completion(uid, NEWROW, after)
                         ELSE profiles
          /\ last' = Statement("update_setup_progress", uid, ok, r.user_id, {})
    /\ UNCHANGED udbSetup

\* The clock advances.
Tick ==
    /\ now < MaxTime
    /\ now' = now + 1
    /\ UNCHANGED <<auth_users, profiles, shopping_carts, user_stats_summary,
                   profile_setup_progress, admin_approvals, admin_audit_log,
                   listings, orders, generated, tables, schema,
                   register, storage_objects, cart_calls, last>>

InitSetup ==
    /\ now = 0
    /\ auth_users = SeededUsers
    /\ profiles = SeededProfiles([i \in UserIds |-> "user"])
    /\ shopping_carts = SeededCarts
    /\ user_stats_summary = SeededStats
    /\ profile_setup_progress = {}
    /\ admin_approvals = {}
    /\ admin_audit_log = {}
    /\ listings = {}
    /\ orders = {}
    /\ generated = [u \in UserIds |-> <<>>]
    /\ tables = NoRows
    /\ schema = NotReplayed
    /\ register = PageLoaded
    /\ storage_objects = {}
    /\ cart_calls = NoCalls
    /\ last = NoStatement

\* The user whose onboarding is followed; every principal issues the statements.
OnboardingUsers == {1}

NextSetup ==
    \/ \E uid \in Principals, u \in OnboardingUsers, st \in StepNames, c \in BOOLEAN :
           InsertSetupProgress(uid, u, st, c)
    \/ \E uid \in Principals, r \in profile_setup_progress, c \in BOOLEAN :
           UpdateSetupProgress(uid, r, c)
    \/ \E uid \in Principals, p \in profiles, c \in BOOLEAN, t \in {NoTime, now} :
           /\ p.id \in OnboardingUsers
           /\ UpdateProfile(uid, p, p.role, p.is_admin, c, t)
    \/ Tick

SpecSetup == InitSetup /\ [][NextSetup]_vars

NextOnboarding ==
    \/ \E uid \in Principals, u \in OnboardingUsers, st \in StepNames, c \in BOOLEAN :
           InsertSetupProgress(uid, u, st, c)
    \/ \E uid \in Principals, r \in profile_setup_progress, c \in BOOLEAN :
           UpdateSetupProgress(uid, r, c)
    \/ Tick

\* Setup-progress writes alone: no statement on profiles but the trigger's.
SpecOnboarding == InitSetup /\ [][NextOnboarding]_vars

SetupWrites == {"insert_setup_progress", "update_setup_progress"}

RequiredSteps == {"avatar_selected", "profile_info_completed", "account_type_selected"}

(***************************************************************************)
(* C5: once a profile's setup_completed is true, a further insert or       *)
(* update of a setup-progress record leaves its setup_completed_at as the  *)
(* first transition stamped it.                                            *)
(***************************************************************************)
C5_CompletionStampedOnce ==
    [][\A p \in profiles :
           (p.setup_completed /\ last'.op \in SetupWrites)
               => \A q \in profiles' :
                      q.id = p.id => q.setup_completed_at = p.setup_completed_at]_vars

(***************************************************************************)
(* C6: over setup-progress writes and permitted profile updates, a         *)
(* profile's setup_completed never goes from true back to false (so it     *)
(* goes from false to true at most once).                                  *)
(***************************************************************************)
C6_CompletedNeverReset ==
    [][\A p \in profiles :
           p.setup_completed => \A q \in profiles' : q.id = p.id => q.setup_completed]_vars

(***************************************************************************)
(* C7: setup_completed becomes true for a profile only when each of        *)
(* avatar_selected, profile_info_completed and account_type_selected has   *)
(* a setup-progress record of that profile with completed = true.          *)
(***************************************************************************)
C7_CompletedOnlyWithAllRequiredSteps ==
    [][\A p \in profiles : \A q \in profiles' :
           (q.id = p.id /\ ~p.setup_completed /\ q.setup_completed)
               => \A st \in RequiredSteps :
                      \E r \in profile_setup_progress' :
                          r.user_id = q.id /\ r.step_name = st /\ r.completed]_vars

(***************************************************************************)
(* Orders: order numbers, policies (section 5.2) and statements.           *)
(***************************************************************************)
\* n::TEXT for n >= 0, as its decimal digits.
RECURSIVE ToText(_)
ToText(n) == IF n < 10 THEN <<n>> ELSE ToText(n \div 10) \o <<n % 10>>

\* LPAD(text, len, fill) with a one-character fill: padded on the left, or cut to len.
LPAD(s, len, fill) ==
    IF Len(s) >= len THEN SubSeq(s, 1, len)
    ELSE [i \in 1..(len - Len(s)) |-> fill] \o s

\* FLOOR(RANDOM() * 10000), within the bound of the model.
RandomSuffixes == 0..(SuffixRange - 1)

\* generate_order_number() when RANDOM() draws r:
\* 'ORD-' || TO_CHAR(NOW(), 'YYYYMMDD') || '-' || LPAD(r::TEXT, 4, '0')
generate_order_number(r) == <<"ORD-", now, "-">> \o LPAD(ToText(r), 4, 0)

\* "Users can view their orders": FOR SELECT USING (auth.uid() = buyer_id OR
\* auth.uid() = seller_id)
OrdersSelectUsingAnyUser(uid, o) == uid # NULL

OrdersSelectUsing(uid, o) == SqlEq(uid, o.buyer_id) \/ SqlEq(uid, o.seller_id)

\* "Buyers can create orders": FOR INSERT WITH CHECK (auth.uid() = buyer_id)
OrdersInsertCheck(uid, o) == SqlEq(uid, o.buyer_id)

\* "Buyers can cancel pending orders": FOR UPDATE USING (auth.uid() = buyer_id AND
\* status IN ('pending_payment', 'payment_processing')); no WITH CHECK, so the
\* same expression checks the new row.
BuyersCancelUsing(uid, o) ==
    SqlEq(uid, o.buyer_id) /\ o.status \in {"pending_payment", "payment_processing"}

\* "Sellers can update order status": FOR UPDATE USING (auth.uid() = seller_id)
\* WITH CHECK (auth.uid() = seller_id)
SellersUpdateUsing(uid, o) == SqlEq(uid, o.seller_id)

SellersUpdateCheck(uid, o) == SqlEq(uid, o.seller_id)

\* The UPDATE policies of orders, OR'd: the rows an UPDATE reaches ...
OrdersUpdateUsing(uid, o) == BuyersCancelUsing(uid, o) \/ SellersUpdateUsing(uid, o)

\* ... and the new rows it may leave.
OrdersUpdateCheck(uid, o) == BuyersCancelUsing(uid, o) \/ SellersUpdateCheck(uid, o)

udbOrders == <<now, auth_users, profiles, shopping_carts, user_stats_summary,
               profile_setup_progress, admin_approvals, admin_audit_log, listings,
               tables, schema,
                   register, storage_objects, cart_calls>>

\* SELECT generate_order_number(), by the session of uid, RANDOM() drawing r.
GenerateOrderNumber(uid, r) ==
    /\ generated[uid] = <<>>
    /\ generated' = [generated EXCEPT ![uid] = generate_order_number(r)]
    /\ last' = Statement("generate_order_number", uid, TRUE, NULL, {})
    /\ UNCHANGED <<orders, udbOrders>>

\* INSERT INTO orders (order_number, buyer_id, seller_id, status) VALUES (...), by
\* uid, with the number its session generated. The schema has no retry: a
\* statement that raises is the end of the creation.
InsertOrder(uid, buyer_id, seller_id, status) ==
    /\ generated[uid] # <<>>
    /\ LET ids == FreshIds(orders, MaxOrders)
           row == [id |-> IF ids = {} THEN NULL
                          ELSE CHOOSE i \in ids : \A j \in ids : i <= j,
                   order_number |-> generated[uid],
                   buyer_id |-> buyer_id, seller_id |-> seller_id, status |-> status]
           \* the first error the statement meets: the policy, a foreign key,
           \* then order_number VARCHAR(50) UNIQUE NOT NULL
           error == IF ~OrdersInsertCheck(uid, row) THEN "row_level_security"
                    ELSE IF \A p \in profiles : p.id # buyer_id THEN "foreign_key"
                    ELSE IF \A p \in profiles : p.id # seller_id THEN "foreign_key"
                    ELSE IF \E o \in orders : o.order_number = row.order_number
                         THEN "unique_violation"
                    ELSE "none"
           ok == error = "none"
       IN /\ ok => ids # {}
          /\ orders' = IF ok THEN orders \cup {row} ELSE orders
          /\ last' = Statement("insert_order", uid, ok, error, {})
    /\ generated' = [generated EXCEPT ![uid] = <<>>]
    /\ UNCHANGED udbOrders

\* UPDATE orders SET status = ..., buyer_id = ..., seller_id = ... WHERE id = ...,
\* by uid. A row the policies hide is not updated; a new row the checks refuse
\* raises.
UpdateOrder(uid, o, status, buyer_id, seller_id) ==
    /\ o \in orders
    /\ \E p \in profiles : p.id = buyer_id
    /\ \E p \in profiles : p.id = seller_id
    /\ LET new == [o EXCEPT !.status = status, !.buyer_id = buyer_id,
                            !.seller_id = seller_id]
           seen == OrdersUpdateUsing(uid, o) /\ OrdersSelectUsing(uid, o)
           ok == seen /\ OrdersUpdateCheck(uid, new) /\ OrdersSelectUsing(uid, new)
       IN /\ orders' = IF ok THEN (orders \ {o}) \cup {new} ELSE orders
          /\ last' = Statement("update_order", uid, ok, o.id, {})
    /\ UNCHANGED <<generated, udbOrders>>

InitOrders ==
    /\ now = 0
    /\ auth_users = SeededUsers
    /\ profiles = SeededProfiles([i \in UserIds |-> IF i = 1 THEN "user" ELSE "admin"])
    /\ shopping_carts = SeededCarts
    /\ user_stats_summary = SeededStats
    /\ profile_setup_progress = {}
    /\ admin_approvals = {}
    /\ admin_audit_log = {}
    /\ listings = {}
    /\ orders = {}
    /\ generated = [u \in UserIds |-> <<>>]
    /\ tables = NoRows
    /\ schema = NotReplayed
    /\ register = PageLoaded
    /\ storage_objects = {}
    /\ cart_calls = NoCalls
    /\ last = NoStatement

NextOrders ==
    \/ \E uid \in UserIds, r \in RandomSuffixes : GenerateOrderNumber(uid, r)
    \/ \E uid \in UserIds, b \in UserIds, s \in UserIds, st \in order_status :
           InsertOrder(uid, b, s, st)
    \/ \E uid \in Principals, o \in orders, st \in order_status,
          b \in UserIds, s \in UserIds : UpdateOrder(uid, o, st, b, s)

SpecOrders == InitOrders /\ [][NextOrders]_vars

(***************************************************************************)
(* C2: an UPDATE that sets an order's status to cancelled succeeds only    *)
(* when the requester is the order's buyer and the status before the       *)
(* update is pending_payment or payment_processing; no principal cancels   *)
(* a shipped order.                                                        *)
(***************************************************************************)
C2_CancelOnlyByBuyerWhilePending ==
    [][\A o \in orders : \A n \in orders' :
           (/\ last'.op = "update_order"
            /\ n.id = o.id
            /\ o.status # "cancelled"
            /\ n.status = "cancelled")
               => /\ last'.caller = o.buyer_id
                  /\ o.status \in {"pending_payment", "payment_processing"}]_vars

(***************************************************************************)
(* C8: every order creation that uses generate_order_number succeeds, and  *)
(* the order numbers of the orders are pairwise distinct: no creation      *)
(* ends in a collision of order numbers.                                   *)
(***************************************************************************)
C8_ConcurrentCreationsAllSucceedDistinct ==
    /\ \A o1 \in orders : \A o2 \in orders :
           o1.order_number = o2.order_number => o1 = o2
    /\ last.op = "insert_order" => last.arg # "unique_violation"

(***************************************************************************)
(* C9: every change of an order's status follows the transition table of   *)
(* the order state machine.                                                *)
(***************************************************************************)
BeforeShipped == {"pending_payment", "payment_processing", "payment_failed", "paid",
                  "preparing"}

OrderTransitions ==
    {<<"pending_payment", "payment_processing">>,
     <<"payment_processing", "paid">>, <<"payment_processing", "payment_failed">>,
     <<"paid", "preparing">>, <<"preparing", "shipped">>, <<"shipped", "in_transit">>,
     <<"in_transit", "delivered">>, <<"delivered", "completed">>}
    \cup {<<st, "cancelled">> : st \in BeforeShipped}
    \cup {<<st, "refunded">> : st \in {"paid", "delivered", "completed"}}

C9_StatusFollowsTransitionTable ==
    [][\A o \in orders : \A n \in orders' :
           (n.id = o.id /\ n.status # o.status)
               => <<o.status, n.status>> \in OrderTransitions]_vars

(***************************************************************************)
(* C10: cancelled and refunded are absorbing: the status of an order that  *)
(* is cancelled or refunded never changes again.                           *)
(***************************************************************************)
C10_CancelledRefundedAbsorbing ==
    [][\A o \in orders : \A n \in orders' :
           (n.id = o.id /\ o.status \in {"cancelled", "refunded"})
               => n.status = o.status]_vars

(***************************************************************************)
(* Access to orders: who reads an order, who creates one.                  *)
(***************************************************************************)
\* SELECT * FROM orders, by uid: the rows the SELECT policy lets through.
SelectOrders(uid) ==
    /\ last' = Statement("select_orders", uid, TRUE, NULL,
                         {o \in orders : OrdersSelectUsing(uid, o)})
    /\ UNCHANGED <<orders, generated, udbOrders>>

\* The user whose order creations are followed; every principal reads and updates.
OrderCreators == {1}

NextOrderAccess ==
    \/ \E uid \in OrderCreators, r \in RandomSuffixes : GenerateOrderNumber(uid, r)
    \/ \E uid \in OrderCreators, b \in UserIds, s \in UserIds :
           InsertOrder(uid, b, s, "pending_payment")
    \/ \E uid \in Principals, o \in orders, b \in UserIds, s \in UserIds :
           UpdateOrder(uid, o, o.status, b, s)
    \/ \E uid \in Principals : SelectOrders(uid)

\* Creations with the default status, changes of the parties, and reads.
SpecOrderAccess == InitOrders /\ [][NextOrderAccess]_vars

(***************************************************************************)
(* C11: a SELECT on orders by principal P returns order O only if P is     *)
(* O's buyer or O's seller, and an INSERT of an order by P succeeds only   *)
(* if the new row's buyer_id is P.                                         *)
(***************************************************************************)
C11_OrdersReadByPartiesCreatedByBuyer ==
    [][/\ last'.op = "select_orders" =>
              /\ last'.rows \subseteq orders'
              /\ \A o \in last'.rows :
                     /\ last'.caller # NULL
                     /\ last'.caller = o.buyer_id \/ last'.caller = o.seller_id
       /\ (last'.op = "insert_order" /\ last'.ok) =>
              /\ orders' # orders
              /\ \A n \in orders' \ orders : n.buyer_id = last'.caller]_vars

\* A user who is neither buyer nor seller of an order reads and is not given it.
C11_Witness ==
    /\ last.op = "select_orders"
    /\ last.caller # NULL
    /\ \E o \in orders \ last.rows :
           o.buyer_id # last.caller /\ o.seller_id # last.caller

(***************************************************************************)
(* C12: admin override: on a table that is not service-role-only (here     *)
(* orders), a principal whose role is admin is allowed every operation on  *)
(* every row, whoever owns it: an admin's SELECT returns every order and   *)
(* an admin's UPDATE of any order succeeds.                                *)
(***************************************************************************)
C12_AdminAllowedOnEveryRow ==
    /\ (last.op = "select_orders" /\ RoleIsAdmin(last.caller)) => last.rows = orders
    /\ (last.op = "update_order" /\ RoleIsAdmin(last.caller)) => last.ok

(***************************************************************************)
(* The other tables: row-level security from the catalogue of policies     *)
(* (sections 5.1 and 5.2), the updated_at trigger, and the statements of   *)
(* a principal and of the service role.                                    *)
(*                                                                         *)
(* The document issues no GRANT: its policies take effect for the API      *)
(* roles through the table privileges Supabase gives anon and              *)
(* authenticated on every table of schema public, so what a principal may  *)
(* do to a row is what row-level security lets through.                    *)
(***************************************************************************)
MaxRows == 1

ServiceRoleOnly == {"query_performance_log", "database_health_metrics", "slow_queries"}

\* ALTER TABLE ... ENABLE ROW LEVEL SECURITY, for the tables held in tables:
\* the list of section 5.1 does not name active_user_sessions.
RlsEnabled == {"query_performance_log", "database_health_metrics", "slow_queries",
               "conversations", "disputes", "returns",
               "brand_verification_requests", "shipping_addresses"}

\* CREATE POLICY ... of the tables held in tables. using / with_check: the
\* policy states the clause.
pg_policies ==
    {[tablename |-> t, policyname |-> "Service role only", cmd |-> "ALL",
      using |-> TRUE, with_check |-> TRUE] : t \in ServiceRoleOnly}
    \cup
    {[tablename |-> "brand_verification_requests",
      policyname |-> "Users can view own brand requests", cmd |-> "SELECT",
      using |-> TRUE, with_check |-> FALSE],
     [tablename |-> "brand_verification_requests",
      policyname |-> "Users can create brand requests", cmd |-> "INSERT",
      using |-> FALSE, with_check |-> TRUE],
     [tablename |-> "brand_verification_requests",
      policyname |-> "Users can update own pending requests", cmd |-> "UPDATE",
      using |-> TRUE, with_check |-> FALSE],
     [tablename |-> "brand_verification_requests",
      policyname |-> "Admins can update any brand request", cmd |-> "UPDATE",
      using |-> TRUE, with_check |-> FALSE]}

\* The USING expression of a policy, on row r for auth.uid() = uid.
UsingExpr(policyname, uid, r) ==
    CASE policyname = "Service role only" -> FALSE
      [] policyname = "Users can view own brand requests" ->
             SqlEq(uid, r.user_id) \/ RoleIsAdmin(uid)
      [] policyname = "Users can update own pending requests" ->
             SqlEq(uid, r.user_id) /\ r.verification_status = "pending"
      [] policyname = "Admins can update any brand request" -> RoleIsAdmin(uid)

\* The WITH CHECK expression of a policy.
WithCheckExpr(policyname, uid, r) ==
    CASE policyname = "Service role only" -> FALSE
      [] policyname = "Users can create brand requests" -> SqlEq(uid, r.user_id)

\* The policies that apply to command cmd on table t.
PoliciesFor(t, cmd) ==
    {pol \in pg_policies : pol.tablename = t /\ pol.cmd \in {cmd, "ALL"}}

\* Row r of t passes the USING expressions for cmd: the permissive policies are
\* OR'd; with row-level security enabled and no policy, no row passes.
RowVisibleAdminOverride(t, cmd, uid, r) ==
    \/ t \notin RlsEnabled
    \/ RoleIsAdmin(uid)
    \/ \E pol \in PoliciesFor(t, cmd) : pol.using /\ UsingExpr(pol.policyname, uid, r)

RowVisible(t, cmd, uid, r) ==
    \/ t \notin RlsEnabled
    \/ \E pol \in PoliciesFor(t, cmd) : pol.using /\ UsingExpr(pol.policyname, uid, r)

\* New row r of t passes the checks for cmd: WITH CHECK, or USING where the policy
\* states no WITH CHECK.
RowAcceptedUnchecked(t, cmd, uid, r) ==
    \/ t \notin RlsEnabled
    \/ \E pol \in PoliciesFor(t, cmd) :
           IF pol.with_check THEN WithCheckExpr(pol.policyname, uid, r) ELSE TRUE

RowAccepted(t, cmd, uid, r) ==
    \/ t \notin RlsEnabled
    \/ \E pol \in PoliciesFor(t, cmd) :
           IF pol.with_check THEN WithCheckExpr(pol.policyname, uid, r)
           ELSE UsingExpr(pol.policyname, uid, r)

\* CREATE TRIGGER update_..._updated_at BEFORE UPDATE, for the tables held in tables.
UpdatedAtTriggers == {"brand_verification_requests"}

\* update_updated_at_column(): NEW.updated_at = NOW(); RETURN NEW;
update_updated_at_column(NEWROW) == [NEWROW EXCEPT !.updated_at = now]

\* The row an UPDATE of table t writes, after its BEFORE UPDATE triggers.
BeforeUpdate(t, NEWROW) ==
    IF t \in UpdatedAtTriggers THEN update_updated_at_column(NEWROW) ELSE NEWROW

BrandStatuses == {"pending", "approved", "rejected", "more_info_needed"}

\* The columns of the model of a row of t, the id apart, with the values given
\* to updated_at drawn from stamps.
Columns(t, stamps) ==
    CASE t \in {"query_performance_log", "slow_queries"} -> [user_id : UserIds]
      [] t = "database_health_metrics" -> [metric_name : {"connections"}]
      [] t = "conversations" -> [buyer_id : UserIds, seller_id : UserIds]
      [] t = "disputes" ->
             [initiated_by : UserIds, respondent_id : UserIds, updated_at : stamps]
      [] t = "returns" -> [requested_by : UserIds, updated_at : stamps]
      [] t = "active_user_sessions" -> [user_id : UserIds]
      [] t = "brand_verification_requests" ->
             [user_id : UserIds, verification_status : BrandStatuses,
              updated_at : stamps]
      [] t = "shipping_addresses" -> [user_id : UserIds, updated_at : stamps]

udbTables == <<now, auth_users, profiles, shopping_carts, user_stats_summary,
               profile_setup_progress, admin_approvals, admin_audit_log,
               listings, orders, generated, schema,
                   register, storage_objects, cart_calls>>

\* SELECT * FROM t, by uid.
SelectFrom(t, uid) ==
    /\ last' = Statement("select", uid, TRUE, <<t, NULL>>,
                         {r \in tables[t] : RowVisible(t, "SELECT", uid, r)})
    /\ UNCHANGED <<tables, udbTables>>

\* INSERT INTO t (...) VALUES (cols), by uid. Every user id of cols is a seeded
\* user, so the REFERENCES of the row hold.
InsertInto(t, uid, cols) ==
    /\ LET ids == FreshIds(tables[t], MaxRows)
           row == [id |-> IF ids = {} THEN NULL
                          ELSE CHOOSE i \in ids : \A j \in ids : i <= j] @@ cols
           ok == RowAccepted(t, "INSERT", uid, row)
       IN /\ ok => ids # {}
          /\ tables' = [tables EXCEPT ![t] = IF ok THEN @ \cup {row} ELSE @]
          /\ last' = Statement("insert", uid, ok, <<t, row.id>>, {})
    /\ UNCHANGED udbTables

\* UPDATE t SET (...) = (cols) WHERE id = r.id, by uid.
UpdateRow(t, uid, r, cols) ==
    /\ r \in tables[t]
    /\ LET new == BeforeUpdate(t, [id |-> r.id] @@ cols)
           seen == RowVisible(t, "UPDATE", uid, r) /\ RowVisible(t, "SELECT", uid, r)
           ok == /\ seen
                 /\ RowAccepted(t, "UPDATE", uid, new)
                 /\ RowVisible(t, "SELECT", uid, new)
       IN /\ tables' = [tables EXCEPT ![t] = IF ok THEN (@ \ {r}) \cup {new} ELSE @]
          /\ last' = Statement("update", uid, ok, <<t, r.id>>, {})
    /\ UNCHANGED udbTables

\* DELETE FROM t WHERE id = r.id, by uid.
DeleteRow(t, uid, r) ==
    /\ r \in tables[t]
    /\ LET seen == RowVisible(t, "DELETE", uid, r) /\ RowVisible(t, "SELECT", uid, r)
       IN /\ tables' = [tables EXCEPT ![t] = IF seen THEN @ \ {r} ELSE @]
          /\ last' = Statement("delete", uid, seen, <<t, r.id>>, {})
    /\ UNCHANGED udbTables

\* INSERT INTO t by the service role, which bypasses row-level security.
ServiceInsert(t, cols) ==
    /\ FreshIds(tables[t], MaxRows) # {}
    /\ LET ids == FreshIds(tables[t], MaxRows)
           row == [id |-> CHOOSE i \in ids : \A j \in ids : i <= j] @@ cols
       IN /\ tables' = [tables EXCEPT ![t] = @ \cup {row}]
          /\ last' = Statement("service_insert", NULL, TRUE, <<t, row.id>>, {})
    /\ UNCHANGED udbTables

\* UPDATE t by the service role: no row-level security, the triggers fire.
ServiceUpdate(t, r, cols) ==
    /\ r \in tables[t]
    /\ LET new == BeforeUpdate(t, [id |-> r.id] @@ cols)
       IN /\ tables' = [tables EXCEPT ![t] = (@ \ {r}) \cup {new}]
          /\ last' = Statement("service_update", NULL, TRUE, <<t, r.id>>, {})
    /\ UNCHANGED udbTables

\* One user, one admin, and moderators.
SeedRoles == [i \in UserIds |-> IF i = 1 THEN "user" ELSE IF i = 2 THEN "admin"
                                ELSE "moderator"]

InitTables ==
    /\ now = 0
    /\ auth_users = SeededUsers
    /\ profiles = SeededProfiles(SeedRoles)
    /\ shopping_carts = SeededCarts
    /\ user_stats_summary = SeededStats
    /\ profile_setup_progress = {}
    /\ admin_approvals = {}
    /\ admin_audit_log = {}
    /\ listings = {}
    /\ orders = {}
    /\ generated = [u \in UserIds |-> <<>>]
    /\ tables = NoRows
    /\ schema = NotReplayed
    /\ register = PageLoaded
    /\ storage_objects = {}
    /\ cart_calls = NoCalls
    /\ last = NoStatement

(***************************************************************************)
(* The monitoring tables, written by the service role.                     *)
(***************************************************************************)
NextMonitoring ==
    \/ \E t \in ServiceRoleOnly : \E c \in Columns(t, {now}) : ServiceInsert(t, c)
    \/ \E t \in ServiceRoleOnly, uid \in Principals : SelectFrom(t, uid)
    \/ \E t \in ServiceRoleOnly, uid \in Principals :
           \E c \in Columns(t, {now}) : InsertInto(t, uid, c)
    \/ \E t \in ServiceRoleOnly, uid \in Principals :
           \E r \in tables[t], c \in Columns(t, {now}) : UpdateRow(t, uid, r, c)
    \/ \E t \in ServiceRoleOnly, uid \in Principals :
           \E r \in tables[t] : DeleteRow(t, uid, r)

SpecMonitoring == InitTables /\ [][NextMonitoring]_vars

(***************************************************************************)
(* C13: the service-role-only tables query_performance_log,                *)
(* database_health_metrics and slow_queries deny SELECT, INSERT, UPDATE    *)
(* and DELETE to every principal of the standard path, admins included: a  *)
(* SELECT returns no row, the other statements change no row.              *)
(***************************************************************************)
C13_ServiceRoleOnlyTablesDenyAll ==
    [][\A t \in ServiceRoleOnly :
           /\ (last'.op = "select" /\ last'.arg[1] = t) => last'.rows = {}
           /\ (last'.op \in {"insert", "update", "delete"} /\ last'.arg[1] = t) =>
                  ~last'.ok /\ tables'[t] = tables[t]]_vars

\* An admin reads a monitoring table that holds a row, one carrying the admin's
\* own user_id, and is given nothing.
C13_Witness ==
    /\ last.op = "select"
    /\ RoleIsAdmin(last.caller)
    /\ last.rows = {}
    /\ last.arg[1] = "slow_queries"
    /\ \E r \in tables["slow_queries"] : r.user_id = last.caller

(***************************************************************************)
(* The tables for which section 5.2 creates no policy.                     *)
(***************************************************************************)
NoPolicyTables == {"conversations", "disputes", "returns", "active_user_sessions"}

\* The command of a statement of a principal.
CommandOf(op) ==
    CASE op = "select" -> "SELECT"
      [] op = "insert" -> "INSERT"
      [] op = "update" -> "UPDATE"
      [] op = "delete" -> "DELETE"

NextNoPolicy ==
    \/ \E t \in NoPolicyTables : \E c \in Columns(t, {now}) : ServiceInsert(t, c)
    \/ \E t \in NoPolicyTables, uid \in Principals : SelectFrom(t, uid)
    \/ \E t \in NoPolicyTables, uid \in Principals :
           \E c \in Columns(t, {now}) : InsertInto(t, uid, c)
    \/ \E t \in NoPolicyTables, uid \in Principals :
           \E r \in tables[t], c \in Columns(t, {now}) : UpdateRow(t, uid, r, c)
    \/ \E t \in NoPolicyTables, uid \in Principals :
           \E r \in tables[t] : DeleteRow(t, uid, r)

SpecNoPolicy == InitTables /\ [][NextNoPolicy]_vars

(***************************************************************************)
(* C14: default-deny: on every table the schema creates (here              *)
(* active_user_sessions, disputes, conversations, returns) a principal     *)
(* performs an operation on a row only if a policy of that table and       *)
(* operation evaluates to true; a table and operation without a policy     *)
(* admits nothing: a SELECT returns no row, a write does not succeed.      *)
(***************************************************************************)
C14_DefaultDeny ==
    [][\A t \in NoPolicyTables :
           /\ (last'.op = "select" /\ last'.arg[1] = t) =>
                  \A r \in last'.rows :
                      \E pol \in PoliciesFor(t, "SELECT") :
                          pol.using /\ UsingExpr(pol.policyname, last'.caller, r)
           /\ (last'.op \in {"insert", "update", "delete"} /\ last'.arg[1] = t
               /\ last'.ok) =>
                  PoliciesFor(t, CommandOf(last'.op)) # {}]_vars

(***************************************************************************)
(* Brand verification requests.                                            *)
(***************************************************************************)
BrandTables == {"brand_verification_requests"}

NextBrandRequests ==
    \/ \E t \in BrandTables, uid \in Principals : SelectFrom(t, uid)
    \/ \E t \in BrandTables, uid \in Principals :
           \E c \in Columns(t, {now}) : InsertInto(t, uid, c)
    \/ \E t \in BrandTables, uid \in Principals :
           \E r \in tables[t], c \in Columns(t, {now}) : UpdateRow(t, uid, r, c)
    \/ \E t \in BrandTables, uid \in Principals :
           \E r \in tables[t] : DeleteRow(t, uid, r)
    \/ \E t \in BrandTables :
           \E r \in tables[t], c \in Columns(t, {now}) : ServiceUpdate(t, r, c)

SpecBrandRequests == InitTables /\ [][NextBrandRequests]_vars

(***************************************************************************)
(* C15: a brand verification request is mutable by its owner only while    *)
(* pending, otherwise only by an admin: an UPDATE by a principal who is    *)
(* not an admin succeeds only if the principal is the row's user_id and    *)
(* the row's verification_status is pending, and it leaves the row         *)
(* pending; an UPDATE that does not succeed changes nothing.               *)
(***************************************************************************)
C15_BrandRequestOwnerOnlyWhilePending ==
    [][(last'.op = "update" /\ last'.arg[1] = "brand_verification_requests") =>
           /\ ~last'.ok => tables' = tables
           /\ (last'.ok /\ ~RoleIsAdmin(last'.caller)) =>
                  \A r \in tables["brand_verification_requests"] :
                      r.id = last'.arg[2] =>
                          /\ r.user_id = last'.caller
                          /\ r.verification_status = "pending"
                          /\ \A n \in tables'["brand_verification_requests"] :
                                 n.id = r.id => n.verification_status = "pending"]_vars

\* An owner who is not an admin has updated their pending request; it is pending.
C15_Witness ==
    /\ last.op = "update"
    /\ last.arg[1] = "brand_verification_requests"
    /\ last.ok
    /\ ~RoleIsAdmin(last.caller)
    /\ \E r \in tables["brand_verification_requests"] :
           /\ r.id = last.arg[2]
           /\ r.user_id = last.caller
           /\ r.verification_status = "pending"

(***************************************************************************)
(* C16: admin_approvals and admin_audit_log are append-only, and the rows  *)
(* of admin_approvals are inserted only by principals whose role is admin: *)
(* no step removes or changes a row of either table, and a step that adds  *)
(* a row to admin_approvals is a statement of a principal who is an admin  *)
(* when issuing it.                                                        *)
(***************************************************************************)
C16_AdminRecordsAppendOnlyAdminAuthored ==
    [][/\ admin_approvals \subseteq admin_approvals'
       /\ admin_audit_log \subseteq admin_audit_log'
       /\ admin_approvals' # admin_approvals => RoleIsAdmin(last'.caller)]_vars

(***************************************************************************)
(* C17: conjunctive ownership: a conversation is accessible to a requester *)
(* who is its buyer_id or its seller_id, and a dispute to a requester who  *)
(* is its initiated_by or its respondent_id: a SELECT by such a requester  *)
(* returns the row.                                                        *)
(***************************************************************************)
C17_EitherOwnerReadsRow ==
    /\ (last.op = "select" /\ last.arg[1] = "conversations") =>
           \A r \in tables["conversations"] :
               (last.caller = r.buyer_id \/ last.caller = r.seller_id)
                   => r \in last.rows
    /\ (last.op = "select" /\ last.arg[1] = "disputes") =>
           \A r \in tables["disputes"] :
               (last.caller = r.initiated_by \/ last.caller = r.respondent_id)
                   => r \in last.rows

(***************************************************************************)
(* Writes to listings, over a hidden status and two public ones.           *)
(***************************************************************************)
WrittenStatuses == {"draft", "active", "sold"}

NextListingWrites ==
    \/ \E uid \in Principals : SelectListings(uid)
    \/ \E uid \in Principals, s \in UserIds, st \in WrittenStatuses :
           InsertListing(uid, s, st)
    \/ \E uid \in Principals, l \in listings, s \in UserIds, st \in WrittenStatuses :
           UpdateListing(uid, l, s, st)
    \/ \E uid \in Principals, l \in listings : DeleteListing(uid, l)

SpecListingWrites == InitTables /\ [][NextListingWrites]_vars

(***************************************************************************)
(* C18: a listing is mutable only by its owner: an INSERT succeeds only    *)
(* with seller_id equal to the requester, an UPDATE or DELETE of listing L *)
(* succeeds only when the requester is L.seller_id, no UPDATE changes      *)
(* L.seller_id, and a statement that does not succeed changes no listing.  *)
(***************************************************************************)
C18_ListingMutableOnlyByOwner ==
    [][/\ (last'.op = "insert_listing" /\ last'.ok) =>
              \A n \in listings' : n.id = last'.arg => n.seller_id = last'.caller
       /\ (last'.op \in {"update_listing", "delete_listing"} /\ last'.ok) =>
              \A l \in listings : l.id = last'.arg => l.seller_id = last'.caller
       /\ last'.op = "update_listing" =>
              \A l \in listings : \A n \in listings' :
                  n.id = l.id => n.seller_id = l.seller_id
       /\ ~last'.ok => listings' = listings]_vars

\* A seller has marked their own listing sold, and another seller's listing stands.
C18_Witness ==
    /\ last.op = "update_listing"
    /\ last.ok
    /\ \E l \in listings :
           l.id = last.arg /\ l.seller_id = last.caller /\ l.status = "sold"
    /\ \E l \in listings : l.seller_id # last.caller

(***************************************************************************)
(* updated_at: a table with the trigger and a table without it.            *)
(***************************************************************************)
StampedTables == {"brand_verification_requests", "shipping_addresses"}

NextTimestamps ==
    \/ \E t \in StampedTables : \E c \in Columns(t, {now}) : ServiceInsert(t, c)
    \/ \E t \in StampedTables :
           \E r \in tables[t], c \in Columns(t, Times) : ServiceUpdate(t, r, c)
    \/ \E t \in StampedTables, uid \in Principals :
           \E r \in tables[t], c \in Columns(t, Times) : UpdateRow(t, uid, r, c)
    \/ Tick

SpecTimestamps == InitTables /\ [][NextTimestamps]_vars

(***************************************************************************)
(* C19: timestamp maintenance: on every table with an updated_at column    *)
(* (here brand_verification_requests and shipping_addresses), after an     *)
(* UPDATE of a row its updated_at is the time of the update, whatever      *)
(* updated_at the client supplied.                                         *)
(***************************************************************************)
C19_UpdatedAtIsTimeOfUpdate ==
    [][(last'.op \in {"update", "service_update"} /\ last'.ok) =>
           \A n \in tables'[last'.arg[1]] :
               n.id = last'.arg[2] => n.updated_at = now']_vars

(***************************************************************************)
(* The replay of the schema document: its statements in the order          *)
(* presented, each with the objects it names (the tables of its            *)
(* REFERENCES and the enumerated types and extension functions of its      *)
(* columns; the table and function of a trigger; the table of an index, of *)
(* ENABLE ROW LEVEL SECURITY and of a policy, and the tables its           *)
(* expressions read; the table or function of a seed statement). The       *)
(* functions are plpgsql: their bodies are not resolved when created. A    *)
(* table that REFERENCES itself needs nothing for it.                      *)
(***************************************************************************)
SchemaDocument ==
    << [line |-> 31, kind |-> "extension", name |-> "uuid-ossp", needs |-> {}],
       [line |-> 32, kind |-> "extension", name |-> "pg_trgm", needs |-> {}],
       [line |-> 33, kind |-> "extension", name |-> "pgcrypto", needs |-> {}],
       [line |-> 40, kind |-> "type", name |-> "order_status", needs |-> {}],
       [line |-> 47, kind |-> "type", name |-> "payment_status", needs |-> {}],
       [line |-> 53, kind |-> "type", name |-> "payment_method_type", needs |-> {}],
       [line |-> 58, kind |-> "type", name |-> "notification_type", needs |-> {}],
       [line |-> 66, kind |-> "type", name |-> "dispute_status", needs |-> {}],
       [line |-> 72, kind |-> "type", name |-> "dispute_type", needs |-> {}],
       [line |-> 79, kind |-> "type", name |-> "return_status", needs |-> {}],
       [line |-> 85, kind |-> "type", name |-> "return_reason", needs |-> {}],
       [line |-> 92, kind |-> "type", name |-> "shipping_carrier", needs |-> {}],
       [line |-> 97, kind |-> "type", name |-> "tracking_status", needs |-> {}],
       [line |-> 103, kind |-> "type", name |-> "discount_type", needs |-> {}],
       [line |-> 108, kind |-> "type", name |-> "promotion_target", needs |-> {}],
       [line |-> 113, kind |-> "type", name |-> "rating_type", needs |-> {}],
       [line |-> 116, kind |-> "type", name |-> "resolution_type", needs |-> {}],
       [line |-> 123, kind |-> "type", name |-> "achievement_type", needs |-> {}],
       [line |-> 129, kind |-> "type", name |-> "notification_channel", needs |-> {}],
       [line |-> 132, kind |-> "type", name |-> "user_role", needs |-> {}],
       [line |-> 141, kind |-> "table", name |-> "profiles", needs |-> {"auth.users", "user_role"}],
       [line |-> 185, kind |-> "index", name |-> "idx_profiles_username", needs |-> {"profiles"}],
       [line |-> 186, kind |-> "index", name |-> "idx_profiles_email", needs |-> {"profiles"}],
       [line |-> 187, kind |-> "index", name |-> "idx_profiles_is_seller", needs |-> {"profiles"}],
       [line |-> 188, kind |-> "index", name |-> "idx_profiles_created_at", needs |-> {"profiles"}],
       [line |-> 189, kind |-> "index", name |-> "idx_profiles_avatar_urls", needs |-> {"profiles"}],
       [line |-> 190, kind |-> "index", name |-> "idx_profiles_cover_urls", needs |-> {"profiles"}],
       [line |-> 191, kind |-> "index", name |-> "idx_profiles_role", needs |-> {"profiles"}],
       [line |-> 194, kind |-> "table", name |-> "auth_sessions", needs |-> {"auth.users"}],
       [line |-> 207, kind |-> "index", name |-> "idx_auth_sessions_user_id", needs |-> {"auth_sessions"}],
       [line |-> 208, kind |-> "index", name |-> "idx_auth_sessions_expires_at", needs |-> {"auth_sessions"}],
       [line |-> 211, kind |-> "table", name |-> "auth_login_history", needs |-> {"auth.users"}],
       [line |-> 222, kind |-> "index", name |-> "idx_auth_login_history_user_id",
        needs |-> {"auth_login_history"}],
       [line |-> 223, kind |-> "index", name |-> "idx_auth_login_history_login_at",
        needs |-> {"auth_login_history"}],
       [line |-> 230, kind |-> "table", name |-> "profile_setup_progress", needs |-> {"auth.users"}],
       [line |-> 243, kind |-> "index", name |-> "idx_profile_setup_progress_user_id",
        needs |-> {"profile_setup_progress"}],
       [line |-> 246, kind |-> "table", name |-> "brand_verification_requests", needs |-> {"auth.users"}],
       [line |-> 265, kind |-> "index", name |-> "idx_brand_verification_status",
        needs |-> {"brand_verification_requests"}],
       [line |-> 268, kind |-> "table", name |-> "social_media_accounts", needs |-> {"auth.users"}],
       [line |-> 283, kind |-> "index", name |-> "idx_social_media_user_id",
        needs |-> {"social_media_accounts"}],
       [line |-> 286, kind |-> "table", name |-> "admin_approvals", needs |-> {"auth.users"}],
       [line |-> 298, kind |-> "index", name |-> "idx_admin_approvals_request", needs |-> {"admin_approvals"}],
       [line |-> 305, kind |-> "table", name |-> "categories", needs |-> {"uuid-ossp"}],
       [line |-> 323, kind |-> "index", name |-> "idx_categories_parent_id", needs |-> {"categories"}],
       [line |-> 324, kind |-> "index", name |-> "idx_categories_slug", needs |-> {"categories"}],
       [line |-> 325, kind |-> "index", name |-> "idx_categories_is_active", needs |-> {"categories"}],
       [line |-> 328, kind |-> "table", name |-> "listings", needs |-> {"profiles", "categories", "uuid-ossp"}],
       [line |-> 357, kind |-> "index", name |-> "idx_listings_seller_id", needs |-> {"listings"}],
       [line |-> 358, kind |-> "index", name |-> "idx_listings_category_id", needs |-> {"listings"}],
       [line |-> 359, kind |-> "index", name |-> "idx_listings_status", needs |-> {"listings"}],
       [line |-> 360, kind |-> "index", name |-> "idx_listings_created_at", needs |-> {"listings"}],
       [line |-> 361, kind |-> "index", name |-> "idx_listings_price", needs |-> {"listings"}],
       [line |-> 362, kind |-> "index", name |-> "idx_listings_title_search", needs |-> {"listings"}],
       [line |-> 363, kind |-> "index", name |-> "idx_listings_image_urls", needs |-> {"listings"}],
       [line |-> 366, kind |-> "table", name |-> "product_variants", needs |-> {"listings", "uuid-ossp"}],
       [line |-> 379, kind |-> "index", name |-> "idx_product_variants_listing_id",
        needs |-> {"product_variants"}],
       [line |-> 380, kind |-> "index", name |-> "idx_product_variants_sku", needs |-> {"product_variants"}],
       [line |-> 383, kind |-> "table", name |-> "favorites", needs |-> {"profiles", "listings", "uuid-ossp"}],
       [line |-> 392, kind |-> "index", name |-> "idx_favorites_user_id", needs |-> {"favorites"}],
       [line |-> 393, kind |-> "index", name |-> "idx_favorites_listing_id", needs |-> {"favorites"}],
       [line |-> 400, kind |-> "table", name |-> "shopping_carts", needs |-> {"profiles", "uuid-ossp"}],
       [line |-> 410, kind |-> "table", name |-> "cart_items",
        needs |-> {"shopping_carts", "listings", "product_variants", "uuid-ossp"}],
       [line |-> 420, kind |-> "index", name |-> "idx_cart_items_cart_id", needs |-> {"cart_items"}],
       [line |-> 421, kind |-> "index", name |-> "idx_cart_items_unique", needs |-> {"cart_items"}],
       [line |-> 424, kind |-> "table", name |-> "orders",
        needs |-> {"profiles", "shipping_addresses", "payment_methods", "order_status", "uuid-ossp"}],
       [line |-> 450, kind |-> "index", name |-> "idx_orders_buyer_id", needs |-> {"orders"}],
       [line |-> 451, kind |-> "index", name |-> "idx_orders_seller_id", needs |-> {"orders"}],
       [line |-> 452, kind |-> "index", name |-> "idx_orders_status", needs |-> {"orders"}],
       [line |-> 453, kind |-> "index", name |-> "idx_orders_created_at", needs |-> {"orders"}],
       [line |-> 454, kind |-> "index", name |-> "idx_orders_order_number", needs |-> {"orders"}],
       [line |-> 457, kind |-> "table", name |-> "order_items",
        needs |-> {"orders", "listings", "product_variants", "uuid-ossp"}],
       [line |-> 470, kind |-> "index", name |-> "idx_order_items_order_id", needs |-> {"order_items"}],
       [line |-> 471, kind |-> "index", name |-> "idx_order_items_listing_id", needs |-> {"order_items"}],
       [line |-> 474, kind |-> "table", name |-> "order_status_history",
        needs |-> {"orders", "profiles", "order_status", "uuid-ossp"}],
       [line |-> 486, kind |-> "index", name |-> "idx_order_status_history_order_id",
        needs |-> {"order_status_history"}],
       [line |-> 489, kind |-> "table", name |-> "order_tracking",
        needs |-> {"orders", "shipping_carrier", "tracking_status", "uuid-ossp"}],
       [line |-> 503, kind |-> "index", name |-> "idx_order_tracking_order_id", needs |-> {"order_tracking"}],
       [line |-> 504, kind |-> "index", name |-> "idx_order_tracking_tracking_number",
        needs |-> {"order_tracking"}],
       [line |-> 511, kind |-> "table", name |-> "payment_accounts", needs |-> {"profiles", "uuid-ossp"}],
       [line |-> 526, kind |-> "table", name |-> "payment_methods",
        needs |-> {"profiles", "payment_method_type", "uuid-ossp"}],
       [line |-> 541, kind |-> "index", name |-> "idx_payment_methods_user_id", needs |-> {"payment_methods"}],
       [line |-> 542, kind |-> "index", name |-> "idx_payment_methods_is_default",
        needs |-> {"payment_methods"}],
       [line |-> 545, kind |-> "table", name |-> "payment_transactions",
        needs |-> {"orders", "payment_status", "uuid-ossp"}],
       [line |-> 560, kind |-> "index", name |-> "idx_payment_transactions_order_id",
        needs |-> {"payment_transactions"}],
       [line |-> 561, kind |-> "index", name |-> "idx_payment_transactions_status",
        needs |-> {"payment_transactions"}],
       [line |-> 562, kind |-> "index", name |-> "idx_payment_transactions_processor_id",
        needs |-> {"payment_transactions"}],
       [line |-> 565, kind |-> "table", name |-> "store_credits", needs |-> {"profiles", "uuid-ossp"}],
       [line |-> 577, kind |-> "index", name |-> "idx_store_credits_user_id", needs |-> {"store_credits"}],
       [line |-> 578, kind |-> "index", name |-> "idx_store_credits_expires_at", needs |-> {"store_credits"}],
       [line |-> 581, kind |-> "table", name |-> "stripe_webhook_events", needs |-> {"uuid-ossp"}],
       [line |-> 592, kind |-> "index", name |-> "idx_stripe_webhook_events_type",
        needs |-> {"stripe_webhook_events"}],
       [line |-> 593, kind |-> "index", name |-> "idx_stripe_webhook_events_processed",
        needs |-> {"stripe_webhook_events"}],
       [line |-> 596, kind |-> "table", name |-> "transactions", needs |-> {"profiles", "orders", "uuid-ossp"}],
       [line |-> 612, kind |-> "index", name |-> "idx_transactions_buyer_id", needs |-> {"transactions"}],
       [line |-> 613, kind |-> "index", name |-> "idx_transactions_seller_id", needs |-> {"transactions"}],
       [line |-> 614, kind |-> "index", name |-> "idx_transactions_order_id", needs |-> {"transactions"}],
       [line |-> 621, kind |-> "table", name |-> "conversations",
        needs |-> {"listings", "profiles", "uuid-ossp"}],
       [line |-> 636, kind |-> "index", name |-> "idx_conversations_buyer_id", needs |-> {"conversations"}],
       [line |-> 637, kind |-> "index", name |-> "idx_conversations_seller_id", needs |-> {"conversations"}],
       [line |-> 638, kind |-> "index", name |-> "idx_conversations_last_message_at",
        needs |-> {"conversations"}],
       [line |-> 641, kind |-> "table", name |-> "messages",
        needs |-> {"conversations", "profiles", "uuid-ossp"}],
       [line |-> 653, kind |-> "index", name |-> "idx_messages_conversation_id", needs |-> {"messages"}],
       [line |-> 654, kind |-> "index", name |-> "idx_messages_created_at", needs |-> {"messages"}],
       [line |-> 657, kind |-> "table", name |-> "notifications",
        needs |-> {"profiles", "orders", "listings", "notification_type", "uuid-ossp"}],
       [line |-> 674, kind |-> "index", name |-> "idx_notifications_user_id", needs |-> {"notifications"}],
       [line |-> 675, kind |-> "index", name |-> "idx_notifications_is_read", needs |-> {"notifications"}],
       [line |-> 676, kind |-> "index", name |-> "idx_notifications_created_at", needs |-> {"notifications"}],
       [line |-> 677, kind |-> "index", name |-> "idx_notifications_type", needs |-> {"notifications"}],
       [line |-> 680, kind |-> "table", name |-> "disputes",
        needs |-> {"orders", "profiles", "dispute_type", "dispute_status", "resolution_type", "uuid-ossp"}],
       [line |-> 699, kind |-> "index", name |-> "idx_disputes_order_id", needs |-> {"disputes"}],
       [line |-> 700, kind |-> "index", name |-> "idx_disputes_status", needs |-> {"disputes"}],
       [line |-> 701, kind |-> "index", name |-> "idx_disputes_initiated_by", needs |-> {"disputes"}],
       [line |-> 704, kind |-> "table", name |-> "dispute_messages",
        needs |-> {"disputes", "profiles", "uuid-ossp"}],
       [line |-> 717, kind |-> "index", name |-> "idx_dispute_messages_dispute_id",
        needs |-> {"dispute_messages"}],
       [line |-> 724, kind |-> "table", name |-> "shipping_addresses", needs |-> {"profiles", "uuid-ossp"}],
       [line |-> 741, kind |-> "index", name |-> "idx_shipping_addresses_user_id",
        needs |-> {"shipping_addresses"}],
       [line |-> 742, kind |-> "index", name |-> "idx_shipping_addresses_is_default",
        needs |-> {"shipping_addresses"}],
       [line |-> 745, kind |-> "table", name |-> "shipping_labels",
        needs |-> {"orders", "shipping_carrier", "uuid-ossp"}],
       [line |-> 757, kind |-> "table", name |-> "returns",
        needs |-> {"orders", "order_items", "profiles", "return_reason", "return_status", "uuid-ossp"}],
       [line |-> 777, kind |-> "index", name |-> "idx_returns_order_id", needs |-> {"returns"}],
       [line |-> 778, kind |-> "index", name |-> "idx_returns_status", needs |-> {"returns"}],
       [line |-> 785, kind |-> "table", name |-> "coupons",
        needs |-> {"profiles", "discount_type", "promotion_target", "uuid-ossp"}],
       [line |-> 818, kind |-> "index", name |-> "idx_coupons_code", needs |-> {"coupons"}],
       [line |-> 819, kind |-> "index", name |-> "idx_coupons_is_active", needs |-> {"coupons"}],
       [line |-> 820, kind |-> "index", name |-> "idx_coupons_valid_dates", needs |-> {"coupons"}],
       [line |-> 823, kind |-> "table", name |-> "coupon_usage",
        needs |-> {"coupons", "profiles", "orders", "uuid-ossp"}],
       [line |-> 836, kind |-> "index", name |-> "idx_coupon_usage_coupon_id", needs |-> {"coupon_usage"}],
       [line |-> 837, kind |-> "index", name |-> "idx_coupon_usage_user_id", needs |-> {"coupon_usage"}],
       [line |-> 838, kind |-> "index", name |-> "idx_coupon_usage_order_id", needs |-> {"coupon_usage"}],
       [line |-> 841, kind |-> "table", name |-> "user_follows", needs |-> {"profiles", "uuid-ossp"}],
       [line |-> 851, kind |-> "index", name |-> "idx_user_follows_follower", needs |-> {"user_follows"}],
       [line |-> 852, kind |-> "index", name |-> "idx_user_follows_following", needs |-> {"user_follows"}],
       [line |-> 855, kind |-> "table", name |-> "user_ratings",
        needs |-> {"orders", "profiles", "rating_type", "uuid-ossp"}],
       [line |-> 869, kind |-> "index", name |-> "idx_user_ratings_rated_user", needs |-> {"user_ratings"}],
       [line |-> 870, kind |-> "index", name |-> "idx_user_ratings_order", needs |-> {"user_ratings"}],
       [line |-> 873, kind |-> "table", name |-> "user_stats_summary", needs |-> {"profiles"}],
       [line |-> 895, kind |-> "table", name |-> "active_user_sessions", needs |-> {}],
       [line |-> 908, kind |-> "index", name |-> "idx_active_user_sessions_user_id",
        needs |-> {"active_user_sessions"}],
       [line |-> 911, kind |-> "table", name |-> "seller_payouts", needs |-> {"profiles"}],
       [line |-> 928, kind |-> "index", name |-> "idx_seller_payouts_seller_id", needs |-> {"seller_payouts"}],
       [line |-> 929, kind |-> "index", name |-> "idx_seller_payouts_status", needs |-> {"seller_payouts"}],
       [line |-> 932, kind |-> "table", name |-> "shipping_events", needs |-> {"orders"}],
       [line |-> 943, kind |-> "index", name |-> "idx_shipping_events_order_id", needs |-> {"shipping_events"}],
       [line |-> 946, kind |-> "table", name |-> "admin_audit_log", needs |-> {"profiles"}],
       [line |-> 960, kind |-> "index", name |-> "idx_admin_audit_log_admin_id", needs |-> {"admin_audit_log"}],
       [line |-> 961, kind |-> "index", name |-> "idx_admin_audit_log_created_at",
        needs |-> {"admin_audit_log"}],
       [line |-> 964, kind |-> "table", name |-> "query_performance_log", needs |-> {}],
       [line |-> 975, kind |-> "index", name |-> "idx_query_performance_log_created_at",
        needs |-> {"query_performance_log"}],
       [line |-> 978, kind |-> "table", name |-> "database_health_metrics", needs |-> {}],
       [line |-> 988, kind |-> "index", name |-> "idx_database_health_metrics_created_at",
        needs |-> {"database_health_metrics"}],
       [line |-> 991, kind |-> "table", name |-> "slow_queries", needs |-> {}],
       [line |-> 1001, kind |-> "index", name |-> "idx_slow_queries_execution_time", needs |-> {"slow_queries"}],
       [line |-> 1004, kind |-> "table", name |-> "refund_requests", needs |-> {"orders", "profiles"}],
       [line |-> 1020, kind |-> "index", name |-> "idx_refund_requests_order_id", needs |-> {"refund_requests"}],
       [line |-> 1021, kind |-> "index", name |-> "idx_refund_requests_status", needs |-> {"refund_requests"}],
       [line |-> 1030, kind |-> "function", name |-> "get_or_create_cart", needs |-> {}],
       [line |-> 1050, kind |-> "function", name |-> "handle_new_user", needs |-> {}],
       [line |-> 1071, kind |-> "function", name |-> "update_updated_at_column", needs |-> {}],
       [line |-> 1080, kind |-> "function", name |-> "calculate_platform_fee", needs |-> {}],
       [line |-> 1089, kind |-> "function", name |-> "generate_order_number", needs |-> {}],
       [line |-> 1098, kind |-> "function", name |-> "get_optimized_image_url", needs |-> {}],
       [line |-> 1122, kind |-> "function", name |-> "is_profile_setup_complete", needs |-> {}],
       [line |-> 1141, kind |-> "function", name |-> "is_admin", needs |-> {}],
       [line |-> 1153, kind |-> "function", name |-> "promote_to_admin", needs |-> {}],
       [line |-> 1192, kind |-> "function", name |-> "update_setup_completion", needs |-> {}],
       [line |-> 1229, kind |-> "trigger", name |-> "update_profiles_updated_at",
        needs |-> {"profiles", "update_updated_at_column"}],
       [line |-> 1232, kind |-> "trigger", name |-> "update_listings_updated_at",
        needs |-> {"listings", "update_updated_at_column"}],
       [line |-> 1235, kind |-> "trigger", name |-> "update_orders_updated_at",
        needs |-> {"orders", "update_updated_at_column"}],
       [line |-> 1241, kind |-> "trigger", name |-> "on_auth_user_created",
        needs |-> {"auth.users", "handle_new_user"}],
       [line |-> 1246, kind |-> "trigger", name |-> "trigger_update_setup_completion",
        needs |-> {"profile_setup_progress", "update_setup_completion"}],
       [line |-> 1251, kind |-> "trigger", name |-> "update_profile_setup_progress_updated_at",
        needs |-> {"profile_setup_progress", "update_updated_at_column"}],
       [line |-> 1254, kind |-> "trigger", name |-> "update_brand_verification_requests_updated_at",
        needs |-> {"brand_verification_requests", "update_updated_at_column"}],
       [line |-> 1257, kind |-> "trigger", name |-> "update_social_media_accounts_updated_at",
        needs |-> {"social_media_accounts", "update_updated_at_column"}],
       [line |-> 1267, kind |-> "rls", name |-> "profiles", needs |-> {"profiles"}],
       [line |-> 1268, kind |-> "rls", name |-> "auth_sessions", needs |-> {"auth_sessions"}],
       [line |-> 1269, kind |-> "rls", name |-> "auth_login_history", needs |-> {"auth_login_history"}],
       [line |-> 1270, kind |-> "rls", name |-> "categories", needs |-> {"categories"}],
       [line |-> 1271, kind |-> "rls", name |-> "listings", needs |-> {"listings"}],
       [line |-> 1272, kind |-> "rls", name |-> "product_variants", needs |-> {"product_variants"}],
       [line |-> 1273, kind |-> "rls", name |-> "favorites", needs |-> {"favorites"}],
       [line |-> 1274, kind |-> "rls", name |-> "shopping_carts", needs |-> {"shopping_carts"}],
       [line |-> 1275, kind |-> "rls", name |-> "cart_items", needs |-> {"cart_items"}],
       [line |-> 1276, kind |-> "rls", name |-> "orders", needs |-> {"orders"}],
       [line |-> 1277, kind |-> "rls", name |-> "order_items", needs |-> {"order_items"}],
       [line |-> 1278, kind |-> "rls", name |-> "order_status_history", needs |-> {"order_status_history"}],
       [line |-> 1279, kind |-> "rls", name |-> "order_tracking", needs |-> {"order_tracking"}],
       [line |-> 1280, kind |-> "rls", name |-> "shipping_addresses", needs |-> {"shipping_addresses"}],
       [line |-> 1281, kind |-> "rls", name |-> "shipping_labels", needs |-> {"shipping_labels"}],
       [line |-> 1282, kind |-> "rls", name |-> "payment_accounts", needs |-> {"payment_accounts"}],
       [line |-> 1283, kind |-> "rls", name |-> "payment_methods", needs |-> {"payment_methods"}],
       [line |-> 1284, kind |-> "rls", name |-> "payment_transactions", needs |-> {"payment_transactions"}],
       [line |-> 1285, kind |-> "rls", name |-> "conversations", needs |-> {"conversations"}],
       [line |-> 1286, kind |-> "rls", name |-> "messages", needs |-> {"messages"}],
       [line |-> 1287, kind |-> "rls", name |-> "notifications", needs |-> {"notifications"}],
       [line |-> 1288, kind |-> "rls", name |-> "disputes", needs |-> {"disputes"}],
       [line |-> 1289, kind |-> "rls", name |-> "dispute_messages", needs |-> {"dispute_messages"}],
       [line |-> 1290, kind |-> "rls", name |-> "returns", needs |-> {"returns"}],
       [line |-> 1291, kind |-> "rls", name |-> "coupons", needs |-> {"coupons"}],
       [line |-> 1292, kind |-> "rls", name |-> "coupon_usage", needs |-> {"coupon_usage"}],
       [line |-> 1293, kind |-> "rls", name |-> "user_follows", needs |-> {"user_follows"}],
       [line |-> 1294, kind |-> "rls", name |-> "user_ratings", needs |-> {"user_ratings"}],
       [line |-> 1295, kind |-> "rls", name |-> "user_stats_summary", needs |-> {"user_stats_summary"}],
       [line |-> 1296, kind |-> "rls", name |-> "store_credits", needs |-> {"store_credits"}],
       [line |-> 1297, kind |-> "rls", name |-> "stripe_webhook_events", needs |-> {"stripe_webhook_events"}],
       [line |-> 1298, kind |-> "rls", name |-> "transactions", needs |-> {"transactions"}],
       [line |-> 1299, kind |-> "rls", name |-> "profile_setup_progress", needs |-> {"profile_setup_progress"}],
       [line |-> 1300, kind |-> "rls", name |-> "brand_verification_requests",
        needs |-> {"brand_verification_requests"}],
       [line |-> 1301, kind |-> "rls", name |-> "social_media_accounts", needs |-> {"social_media_accounts"}],
       [line |-> 1302, kind |-> "rls", name |-> "admin_approvals", needs |-> {"admin_approvals"}],
       [line |-> 1303, kind |-> "rls", name |-> "seller_payouts", needs |-> {"seller_payouts"}],
       [line |-> 1304, kind |-> "rls", name |-> "shipping_events", needs |-> {"shipping_events"}],
       [line |-> 1305, kind |-> "rls", name |-> "admin_audit_log", needs |-> {"admin_audit_log"}],
       [line |-> 1306, kind |-> "rls", name |-> "query_performance_log", needs |-> {"query_performance_log"}],
       [line |-> 1307, kind |-> "rls", name |-> "database_health_metrics",
        needs |-> {"database_health_metrics"}],
       [line |-> 1308, kind |-> "rls", name |-> "slow_queries", needs |-> {"slow_queries"}],
       [line |-> 1309, kind |-> "rls", name |-> "refund_requests", needs |-> {"refund_requests"}],
       [line |-> 1316, kind |-> "policy", name |-> "Anyone can view profiles", needs |-> {"profiles"}],
       [line |-> 1319, kind |-> "policy", name |-> "Users can insert own profile", needs |-> {"profiles"}],
       [line |-> 1322, kind |-> "policy", name |-> "Users can update own profile", needs |-> {"profiles"}],
       [line |-> 1326, kind |-> "policy", name |-> "Listings are viewable by everyone", needs |-> {"listings"}],
       [line |-> 1329, kind |-> "policy", name |-> "Users can create their own listings", needs |-> {"listings"}],
       [line |-> 1332, kind |-> "policy", name |-> "Users can update their own listings", needs |-> {"listings"}],
       [line |-> 1335, kind |-> "policy", name |-> "Users can delete their own listings", needs |-> {"listings"}],
       [line |-> 1339, kind |-> "policy", name |-> "Users can view their own cart", needs |-> {"shopping_carts"}],
       [line |-> 1342, kind |-> "policy", name |-> "Users can create their own cart",
        needs |-> {"shopping_carts"}],
       [line |-> 1345, kind |-> "policy", name |-> "Users can update their own cart",
        needs |-> {"shopping_carts"}],
       [line |-> 1349, kind |-> "policy", name |-> "Users can view their orders", needs |-> {"orders"}],
       [line |-> 1352, kind |-> "policy", name |-> "Buyers can create orders", needs |-> {"orders"}],
       [line |-> 1355, kind |-> "policy", name |-> "Buyers can cancel pending orders", needs |-> {"orders"}],
       [line |-> 1358, kind |-> "policy", name |-> "Sellers can update order status", needs |-> {"orders"}],
       [line |-> 1362, kind |-> "policy", name |-> "Users can view own setup progress",
        needs |-> {"profile_setup_progress"}],
       [line |-> 1365, kind |-> "policy", name |-> "Users can insert own setup progress",
        needs |-> {"profile_setup_progress"}],
       [line |-> 1368, kind |-> "policy", name |-> "Users can update own setup progress",
        needs |-> {"profile_setup_progress"}],
       [line |-> 1372, kind |-> "policy", name |-> "Users can view own brand requests",
        needs |-> {"brand_verification_requests", "profiles"}],
       [line |-> 1377, kind |-> "policy", name |-> "Users can create brand requests",
        needs |-> {"brand_verification_requests"}],
       [line |-> 1380, kind |-> "policy", name |-> "Users can update own pending requests",
        needs |-> {"brand_verification_requests"}],
       [line |-> 1383, kind |-> "policy", name |-> "Admins can update any brand request",
        needs |-> {"brand_verification_requests", "profiles"}],
       [line |-> 1389, kind |-> "policy", name |-> "Users can view social media accounts",
        needs |-> {"social_media_accounts"}],
       [line |-> 1392, kind |-> "policy", name |-> "Users can manage own social accounts",
        needs |-> {"social_media_accounts"}],
       [line |-> 1396, kind |-> "policy", name |-> "Only admins can view approvals",
        needs |-> {"admin_approvals", "profiles"}],
       [line |-> 1401, kind |-> "policy", name |-> "Only admins can create approvals",
        needs |-> {"admin_approvals", "profiles"}],
       [line |-> 1407, kind |-> "policy", name |-> "Sellers can view own payouts", needs |-> {"seller_payouts"}],
       [line |-> 1410, kind |-> "policy", name |-> "Only system can create payouts", needs |-> {"seller_payouts"}],
       [line |-> 1414, kind |-> "policy", name |-> "Users can view shipping events for their orders",
        needs |-> {"shipping_events", "orders"}],
       [line |-> 1421, kind |-> "policy", name |-> "Only admins can view audit log",
        needs |-> {"admin_audit_log", "profiles"}],
       [line |-> 1427, kind |-> "policy", name |-> "Service role only", needs |-> {"query_performance_log"}],
       [line |-> 1430, kind |-> "policy", name |-> "Service role only", needs |-> {"database_health_metrics"}],
       [line |-> 1433, kind |-> "policy", name |-> "Service role only", needs |-> {"slow_queries"}],
       [line |-> 1437, kind |-> "policy", name |-> "Users can view own refund requests",
        needs |-> {"refund_requests", "orders"}],
       [line |-> 1443, kind |-> "policy", name |-> "Buyers can create refund requests",
        needs |-> {"refund_requests", "orders"}],
       [line |-> 1449, kind |-> "policy", name |-> "Only admins can update refund requests",
        needs |-> {"refund_requests", "profiles"}],
       [line |-> 1461, kind |-> "insert", name |-> "storage.buckets", needs |-> {"storage.buckets"}],
       [line |-> 1474, kind |-> "policy", name |-> "Avatar images are publicly accessible",
        needs |-> {"storage.objects"}],
       [line |-> 1477, kind |-> "policy", name |-> "Users can upload their own avatar",
        needs |-> {"storage.objects"}],
       [line |-> 1480, kind |-> "policy", name |-> "Users can update their own avatar",
        needs |-> {"storage.objects"}],
       [line |-> 1483, kind |-> "policy", name |-> "Users can delete their own avatar",
        needs |-> {"storage.objects"}],
       [line |-> 1527, kind |-> "insert", name |-> "categories", needs |-> {"categories"}],
       [line |-> 1541, kind |-> "update", name |-> "profiles", needs |-> {"profiles"}],
       [line |-> 1546, kind |-> "select", name |-> "promote_to_admin", needs |-> {"promote_to_admin"}] >>

\* What a Supabase project holds before the document runs.
Platform == {"auth.users", "storage.buckets", "storage.objects"}

\* The statements that leave an object a later statement can name.
Creates(stmt) == stmt.kind \in {"extension", "type", "table", "function"}

\* The next statement of the document runs. A statement that names an object
\* that does not exist raises and leaves nothing; the replay goes on with the
\* statement after it.
ReplayStatement ==
    /\ schema.pos < Len(SchemaDocument)
    /\ LET stmt == SchemaDocument[schema.pos + 1]
           raised == ~(stmt.needs \subseteq schema.objects \cup Platform)
       IN /\ schema' = [pos |-> schema.pos + 1,
                        objects |-> IF ~raised /\ Creates(stmt)
                                    THEN schema.objects \cup {stmt.name}
                                    ELSE schema.objects,
                        failed |-> IF raised THEN schema.failed \cup {stmt.line}
                                   ELSE schema.failed]
          /\ last' = Statement("replay", NULL, ~raised, stmt.line, {})
    /\ UNCHANGED <<now, auth_users, profiles, shopping_carts, user_stats_summary,
                   profile_setup_progress, admin_approvals, admin_audit_log,
                   listings, orders, generated, tables,
                   register, storage_objects, cart_calls>>

NextReplay == ReplayStatement

\* The document replayed on a new project.
SpecReplay == InitUsers /\ [][NextReplay]_vars

(***************************************************************************)
(* C20: replaying the statements of the schema document in the order       *)
(* presented, every object is created after the objects it depends on:     *)
(* when a statement runs, every object it names exists already (the        *)
(* tables of a CREATE TABLE's REFERENCES, the table and function of a      *)
(* trigger, the table of a policy).                                        *)
(***************************************************************************)
C20_ReferentsExistWhenStatementRuns ==
    [][schema'.pos # schema.pos =>
           SchemaDocument[schema'.pos].needs \subseteq schema.objects \cup Platform]_vars

(***************************************************************************)
(* Deleting a principal: the foreign keys to auth.users and to profiles.   *)
(***************************************************************************)
\* A row that REFERENCES profiles(id) without ON DELETE (NO ACTION) names id:
\* orders.buyer_id / seller_id, admin_audit_log.admin_id, disputes.initiated_by /
\* respondent_id, returns.requested_by.
ProfileReferencedSparingOrders(id) ==
    \/ \E r \in admin_audit_log : r.admin_id = id
    \/ \E r \in tables["disputes"] : r.initiated_by = id \/ r.respondent_id = id
    \/ \E r \in tables["returns"] : r.requested_by = id

ProfileReferenced(id) ==
    \/ \E o \in orders : o.buyer_id = id \/ o.seller_id = id
    \/ \E r \in admin_audit_log : r.admin_id = id
    \/ \E r \in tables["disputes"] : r.initiated_by = id \/ r.respondent_id = id
    \/ \E r \in tables["returns"] : r.requested_by = id

\* A row that REFERENCES auth.users(id) without ON DELETE names id:
\* admin_approvals.admin_id.
AuthUserReferenced(id) == \E a \in admin_approvals : a.admin_id = id

\* The tables after the ON DELETE CASCADE of the rows that reference profile id.
ProfileCascade(id) ==
    [tables EXCEPT
        !["conversations"] = {r \in @ : r.buyer_id # id /\ r.seller_id # id},
        !["shipping_addresses"] = {r \in @ : r.user_id # id}]

\* DELETE FROM auth.users WHERE id = ..., by the service role (the deletion of an
\* account). The delete cascades to profiles and from there on; a reference
\* without ON DELETE raises and the statement leaves every row as it was.
DeleteAuthUser(id) ==
    /\ \E u \in auth_users : u.id = id
    /\ LET hasProfile == \E p \in profiles : p.id = id
           raised == AuthUserReferenced(id) \/ (hasProfile /\ ProfileReferenced(id))
           cascaded == [ProfileCascade(id) EXCEPT
                           !["brand_verification_requests"] =
                               {r \in @ : r.user_id # id}]
       IN /\ auth_users' = IF raised THEN auth_users
                           ELSE {u \in auth_users : u.id # id}
          /\ profiles' = IF raised THEN profiles ELSE {p \in profiles : p.id # id}
          /\ profile_setup_progress' =
                 IF raised THEN profile_setup_progress
                 ELSE {r \in profile_setup_progress : r.user_id # id}
          /\ shopping_carts' = IF raised THEN shopping_carts
                               ELSE {c \in shopping_carts : c.user_id # id}
          /\ user_stats_summary' = IF raised THEN user_stats_summary
                                   ELSE {t \in user_stats_summary : t.user_id # id}
          /\ listings' = IF raised THEN listings
                         ELSE {l \in listings : l.seller_id # id}
          /\ tables' = IF raised THEN tables ELSE cascaded
          /\ last' = Statement("delete_auth_user", NULL, ~raised, id, {})
    /\ UNCHANGED <<now, admin_approvals, admin_audit_log, orders, generated, schema,
                   register, storage_objects, cart_calls>>

\* DELETE FROM profiles WHERE id = ..., by the service role.
ServiceDeleteProfile(id) ==
    /\ \E p \in profiles : p.id = id
    /\ LET raised == ProfileReferenced(id)
       IN /\ profiles' = IF raised THEN profiles ELSE {p \in profiles : p.id # id}
          /\ shopping_carts' = IF raised THEN shopping_carts
                               ELSE {c \in shopping_carts : c.user_id # id}
          /\ user_stats_summary' = IF raised THEN user_stats_summary
                                   ELSE {t \in user_stats_summary : t.user_id # id}
          /\ listings' = IF raised THEN listings
                         ELSE {l \in listings : l.seller_id # id}
          /\ tables' = IF raised THEN tables ELSE ProfileCascade(id)
          /\ last' = Statement("service_delete_profile", NULL, ~raised, id, {})
    /\ UNCHANGED <<now, auth_users, profile_setup_progress, admin_approvals,
                   admin_audit_log, orders, generated, schema,
                   register, storage_objects, cart_calls>>

\* DELETE FROM profiles WHERE id = ..., by uid: profiles has no DELETE policy, so
\* the statement reaches no row.
DeleteProfile(uid, id) ==
    /\ \E p \in profiles : p.id = id
    /\ last' = Statement("delete_profile", uid, FALSE, id, {})
    /\ UNCHANGED <<now, auth_users, profiles, shopping_carts, user_stats_summary,
                   profile_setup_progress, admin_approvals, admin_audit_log,
                   listings, orders, generated, tables, schema,
                   register, storage_objects, cart_calls>>

NextAccountDeletion ==
    \/ \E uid \in OrderCreators, r \in RandomSuffixes : GenerateOrderNumber(uid, r)
    \/ \E uid \in OrderCreators, b \in UserIds, s \in UserIds :
           InsertOrder(uid, b, s, "pending_payment")
    \/ \E uid \in UserIds, o \in orders, s \in UserIds :
           UpdateOrder(uid, o, o.status, o.buyer_id, s)
    \/ \E id \in UserIds : DeleteAuthUser(id)
    \/ \E id \in UserIds : ServiceDeleteProfile(id)
    \/ \E uid \in Principals, id \in UserIds : DeleteProfile(uid, id)

SpecAccountDeletion == InitOrders /\ [][NextAccountDeletion]_vars

DeleteStatements == {"delete_auth_user", "service_delete_profile", "delete_profile"}

(***************************************************************************)
(* C21: a profile is never hard-deleted while an order references it:      *)
(* every order's buyer_id and seller_id refer to an existing profiles row, *)
(* and a delete of a principal or profile that an order references fails   *)
(* and leaves every row unchanged.                                         *)
(***************************************************************************)
C21_ProfileOfOrderNeverDeleted ==
    [][/\ \A o \in orders' :
              /\ \E p \in profiles' : p.id = o.buyer_id
              /\ \E p \in profiles' : p.id = o.seller_id
       /\ (/\ last'.op \in DeleteStatements
           /\ \E o \in orders : o.buyer_id = last'.arg \/ o.seller_id = last'.arg)
              => /\ ~last'.ok
                 /\ UNCHANGED <<auth_users, profiles, shopping_carts,
                                user_stats_summary, profile_setup_progress,
                                admin_approvals, admin_audit_log, listings, orders,
                                tables>>]_vars

\* The deletion of the account of an order's seller has raised; the buyer and the
\* seller still have their profiles and their carts.
C21_Witness ==
    /\ last.op = "delete_auth_user"
    /\ ~last.ok
    /\ \E o \in orders :
           /\ o.seller_id = last.arg
           /\ o.buyer_id # last.arg
           /\ \E p \in profiles : p.id = last.arg
           /\ \E c \in shopping_carts : c.user_id = last.arg


(***************************************************************************)
(* The register page (src/lib/components/ui/input.svelte): registerSchema  *)
(* and handleRegister. A text is a sequence of characters. The validators  *)
(* of zod that the schema names are modelled by what they accept over the  *)
(* characters below: email() as one @ between a local part and a domain    *)
(* whose last label has two letters or more, url() as what new URL()       *)
(* parses, a scheme of letters followed by a colon.                        *)
(***************************************************************************)
Letters == {"a", "b", "c", "o", "h", "D", "r", "s", "n"}

Digits == {"1"}

\* The value JavaScript calls undefined; no text equals it.
undefined == <<"undefined">>

\* x || undefined of JavaScript: the empty text is falsy.
OrUndefined(x) == IF x = << >> THEN undefined ELSE x

\* /^[a-zA-Z0-9_]+$/
MatchesUsernameRegex(s) ==
    /\ Len(s) >= 1
    /\ \A i \in 1..Len(s) : s[i] \in Letters \cup Digits \cup {"_"}

\* z.string().email()
IsEmail(s) ==
    \E at \in 2..Len(s) :
       /\ s[at] = "@"
       /\ \A i \in 1..(at - 1) : s[i] \in Letters \cup Digits \cup {"_", "-", "."}
       /\ s[1] # "." /\ s[at - 1] # "."
       /\ \E dot \in (at + 2)..(Len(s) - 2) :
             /\ s[dot] = "."
             /\ \A i \in (at + 1)..(dot - 1) : s[i] \in Letters \cup Digits \cup {"-", "."}
             /\ s[at + 1] \in Letters \cup Digits
             /\ \A i \in (at + 1)..(dot - 2) : ~(s[i] = "." /\ s[i + 1] = ".")
             /\ s[dot - 1] # "."
             /\ \A i \in (dot + 1)..Len(s) : s[i] \in Letters

\* z.string().url(): new URL(s) does not throw.
IsUrl(s) ==
    \E colon \in 2..Len(s) :
       /\ s[colon] = ":"
       /\ \A i \in 1..(colon - 1) : s[i] \in Letters

\* The object handleRegister hands to registerSchema.parse.
ParsedObject(f) ==
    [f EXCEPT !.fullName = OrUndefined(f.fullName),
              !.brandName = OrUndefined(f.brandName),
              !.brandCategory = OrUndefined(f.brandCategory),
              !.brandWebsite = OrUndefined(f.brandWebsite)]

\* The issues of the fields of the object: none of them stops the parse, so
\* the refinements of the object run as well.
FieldIssues(data) ==
    {m \in {"Please enter a valid email address",
            "Password must be at least 8 characters",
            "Username must be at least 3 characters",
            "Username must be less than 30 characters",
            "Username can only contain letters, numbers, and underscores",
            "You must agree to the terms of service",
            "Invalid enum value",
            "Invalid url",
            "Passwords don't match"} :
        \/ m = "Please enter a valid email address" /\ ~IsEmail(data.email)
        \/ m = "Password must be at least 8 characters" /\ Len(data.password) < 8
        \/ m = "Username must be at least 3 characters" /\ Len(data.username) < 3
        \/ m = "Username must be less than 30 characters" /\ Len(data.username) > 30
        \/ /\ m = "Username can only contain letters, numbers, and underscores"
           /\ ~MatchesUsernameRegex(data.username)
        \/ m = "You must agree to the terms of service" /\ data.agreedToTerms # TRUE
        \/ m = "Invalid enum value" /\ data.accountType \notin {"personal", "brand"}
        \/ /\ m = "Invalid url"
           /\ data.brandWebsite # undefined
           /\ ~IsUrl(data.brandWebsite)
           /\ data.brandWebsite # << >>
        \/ m = "Passwords don't match" /\ data.password # data.confirmPassword}

\* registerSchema without its last refinement.
registerSchemaAnyBrandName(data) == FieldIssues(data)

\* registerSchema.parse(data): the messages of the issues it throws; the
\* empty set when it returns.
registerSchema(data) ==
    FieldIssues(data) \cup
    IF /\ data.accountType = "brand"
       /\ ~(data.brandName # undefined /\ data.brandName # << >>
            /\ Len(data.brandName) >= 2)
    THEN {"Brand name is required for brand accounts"}
    ELSE {}

Repeated(c, n) == [i \in 1..n |-> c]

\* What the visitor types into the page.
EmailTexts == {<<"a", "@", "b", ".", "c", "o">>, <<"a", "b">>}

PasswordTexts == {Repeated("a", 8), <<"a", "b", "c">>}

UsernameTexts == {<<"a", "_", "1">>, <<"a", "b">>, <<"a", "-", "b">>, Repeated("a", 31)}

FullNameTexts == {<< >>, <<"n">>}

BrandNameTexts == {<< >>, <<"D">>, <<"D", "r">>}

BrandCategoryTexts == {<< >>, <<"s">>}

BrandWebsiteTexts == {<< >>, <<"h", ":", "/", "/", "b", ".", "c", "o">>,
                      <<"b", ".", "c", "o">>}

\* What the visitor can put into each field.
FieldValues ==
    [email |-> EmailTexts, password |-> PasswordTexts,
     confirmPassword |-> PasswordTexts, username |-> UsernameTexts,
     fullName |-> FullNameTexts, agreedToTerms |-> BOOLEAN,
     accountType |-> {"personal", "brand"}, brandName |-> BrandNameTexts,
     brandCategory |-> BrandCategoryTexts, brandWebsite |-> BrandWebsiteTexts]

udbRegister == <<now, auth_users, profiles, shopping_carts, user_stats_summary,
                 profile_setup_progress, admin_approvals, admin_audit_log,
                 listings, orders, generated, tables, schema,
                 storage_objects, cart_calls, last>>

\* The visitor edits a field: the inputs are disabled while loading, and
\* the form is not shown on the success page. What the last submission left
\* on the page is gone.
FillForm(field, value) ==
    /\ register.pc # "awaiting"
    /\ ~register.loading
    /\ ~register.success
    /\ register' = [PageLoaded EXCEPT !.fields = [register.fields EXCEPT ![field] = value]]
    /\ UNCHANGED udbRegister

\* handleRegister up to its await. The form submits through its button,
\* which is disabled while loading and until the terms are agreed to.
\* parse throws before anything is sent: the catch block shows the issues
\* and the finally block clears loading.
HandleRegister ==
    /\ register.pc = "idle"
    /\ ~register.loading
    /\ register.fields.agreedToTerms
    /\ LET f == register.fields
           issues == registerSchema(ParsedObject(f))
           brand == f.accountType = "brand"
           call == [email |-> f.email, password |-> f.password,
                    username |-> f.username,
                    fullName |-> OrUndefined(f.fullName),
                    account_type |-> f.accountType,
                    brand_name |-> IF brand THEN f.brandName ELSE undefined,
                    brand_category |-> IF brand THEN f.brandCategory ELSE undefined,
                    brand_website |-> IF brand THEN f.brandWebsite ELSE undefined]
       IN register' =
              IF issues # {}
              THEN [register EXCEPT !.pc = "returned", !.issues = issues,
                                    !.toasts = issues, !.loading = FALSE]
              ELSE [register EXCEPT !.pc = "awaiting", !.loading = TRUE,
                                    !.signUp = Append(register.signUp, call)]
    /\ UNCHANGED udbRegister

\* auth.signUp resolved: the success toast, the navigation, then finally.
SignUpResolved ==
    /\ register.pc = "awaiting"
    /\ register' = [register EXCEPT
                       !.pc = "returned",
                       !.toasts = {"Account created! Please check your email to verify your account."},
                       !.success = TRUE,
                       !.loading = FALSE]
    /\ UNCHANGED udbRegister

\* auth.signUp rejected: the catch block shows the message of the error (one
\* without issues), nothing navigates, then finally.
SignUpRejected ==
    /\ register.pc = "awaiting"
    /\ register' = [register EXCEPT !.pc = "returned",
                                    !.toasts = {"Registration failed"},
                                    !.loading = FALSE]
    /\ UNCHANGED udbRegister

NextRegister ==
    \/ \E field \in DOMAIN FieldValues :
          \E value \in FieldValues[field] : FillForm(field, value)
    \/ HandleRegister
    \/ SignUpResolved
    \/ SignUpRejected

SpecRegister == InitUsers /\ [][NextRegister]_vars

\* A submission with valid fields, a valid brand name, a category and an
\* empty or valid website.
ValidBrandSubmission(f) ==
    /\ IsEmail(f.email)
    /\ Len(f.password) >= 8
    /\ f.confirmPassword = f.password
    /\ Len(f.username) >= 3 /\ Len(f.username) <= 30
    /\ MatchesUsernameRegex(f.username)
    /\ f.agreedToTerms
    /\ f.accountType = "brand"
    /\ Len(f.brandName) >= 2
    /\ f.brandCategory # << >>
    /\ f.brandWebsite = << >> \/ IsUrl(f.brandWebsite)

\* A brand submission without a brand name, or with one shorter than two
\* characters.
BrandNameMissing(f) == f.accountType = "brand" /\ Len(f.brandName) < 2

\* C22 as stated: auth.signUp is called only after registerSchema has      
\* passed; a brand submission without a brand name of two characters       
\* raises a validation error and never reaches auth.signUp; a valid brand  
\* submission calls auth.signUp exactly once and then shows the success    
\* page.                                                                   
C22_ValidSubmissionAlwaysSucceeds ==
    /\ register.signUp # << >> => registerSchema(ParsedObject(register.fields)) = {}
    /\ register.pc # "idle" /\ BrandNameMissing(register.fields) =>
           register.issues # {} /\ register.signUp = << >> /\ ~register.success
    /\ register.pc = "returned" /\ ValidBrandSubmission(register.fields) =>
           Len(register.signUp) = 1 /\ register.success

\* C22: auth.signUp is called only after registerSchema has passed; a      
\* brand submission without a brand name of two characters raises a        
\* validation error and never reaches auth.signUp; a valid brand           
\* submission calls auth.signUp exactly once, and shows the success page   
\* exactly when that call resolved.                                        
C22_SignUpOnlyAfterValidation ==
    /\ register.signUp # << >> => registerSchema(ParsedObject(register.fields)) = {}
    /\ register.pc # "idle" /\ BrandNameMissing(register.fields) =>
           register.issues # {} /\ register.signUp = << >> /\ ~register.success
    /\ register.pc = "returned" /\ ValidBrandSubmission(register.fields) =>
           /\ Len(register.signUp) = 1
           /\ register.success <=> "Registration failed" \notin register.toasts
    /\ register.success => Len(register.signUp) = 1 /\ register.issues = {}

\* A valid brand submission with a website has reached the success page.
C22_Witness ==
    /\ register.pc = "returned"
    /\ ValidBrandSubmission(register.fields)
    /\ IsUrl(register.fields.brandWebsite)
    /\ Len(register.signUp) = 1
    /\ register.success


(***************************************************************************)
(* Storage: the five buckets and the policies on storage.objects. The      *)
(* platform enables row-level security on storage.objects, so a command    *)
(* that no policy of the document names is denied to every principal. The  *)
(* name of an object is its path, a sequence of segments, each a text of   *)
(* digits.                                                                 *)
(***************************************************************************)
\* INSERT INTO storage.buckets
Buckets == {"avatars", "covers", "listings", "returns", "disputes"}

\* The users whose folders the model holds, and who act on the objects.
ObjectOwners == {1, 2}

\* The paths of the model: a file in the folder of each owner, a second file
\* in the folder of user 1, and a file at the top of the bucket named as the
\* id of user 1.
ObjectNames ==
    {<<ToText(u), ToText(0)>> : u \in ObjectOwners}
    \cup {<<ToText(1), ToText(1)>>, <<ToText(1)>>}

\* storage.foldername(name): the segments of the path but the last.
foldername(name) == SubSeq(name, 1, Len(name) - 1)

\* auth.uid()::text = (storage.foldername(name))[1], not true when either
\* side is NULL.
OwnFolder(uid, name) ==
    /\ uid # NULL
    /\ Len(foldername(name)) >= 1
    /\ foldername(name)[1] = ToText(uid)

\* CREATE POLICY ... ON storage.objects
storage_policies ==
    {[policyname |-> "Avatar images are publicly accessible", cmd |-> "SELECT",
      using |-> TRUE, with_check |-> FALSE],
     [policyname |-> "Users can upload their own avatar", cmd |-> "INSERT",
      using |-> FALSE, with_check |-> TRUE],
     [policyname |-> "Users can update their own avatar", cmd |-> "UPDATE",
      using |-> TRUE, with_check |-> FALSE],
     [policyname |-> "Users can delete their own avatar", cmd |-> "DELETE",
      using |-> TRUE, with_check |-> FALSE]}

\* The expression of a policy on storage.objects, on object r for
\* auth.uid() = uid.
StorageExpr(policyname, uid, r) ==
    CASE policyname = "Avatar images are publicly accessible" ->
             r.bucket_id = "avatars"
      [] policyname \in {"Users can upload their own avatar",
                         "Users can update their own avatar",
                         "Users can delete their own avatar"} ->
             r.bucket_id = "avatars" /\ OwnFolder(uid, r.name)

\* Object r passes the USING expressions for cmd.
ObjectVisible(cmd, uid, r) ==
    \E pol \in storage_policies :
       pol.cmd = cmd /\ pol.using /\ StorageExpr(pol.policyname, uid, r)

\* New object r passes the checks for cmd, with no check where the policy
\* states no WITH CHECK.
ObjectAcceptedUnchecked(cmd, uid, r) ==
    \E pol \in storage_policies :
       pol.cmd = cmd /\ (pol.with_check => StorageExpr(pol.policyname, uid, r))

\* New object r passes the checks for cmd: WITH CHECK, or USING where the
\* policy states no WITH CHECK.
ObjectAccepted(cmd, uid, r) ==
    \E pol \in storage_policies :
       pol.cmd = cmd /\ StorageExpr(pol.policyname, uid, r)

Object(bucket_id, name) == [bucket_id |-> bucket_id, name |-> name]

udbStorage == <<now, auth_users, profiles, shopping_carts, user_stats_summary,
                profile_setup_progress, admin_approvals, admin_audit_log,
                listings, orders, generated, tables, schema, register, cart_calls>>

\* INSERT INTO storage.objects by uid; (bucket_id, name) is unique.
InsertObject(uid, bucket_id, name) ==
    /\ Cardinality(storage_objects) < MaxRows
    /\ LET r == Object(bucket_id, name)
           ok == ObjectAccepted("INSERT", uid, r) /\ r \notin storage_objects
       IN /\ storage_objects' = IF ok THEN storage_objects \cup {r} ELSE storage_objects
          /\ last' = Statement("insert_object", uid, ok, <<r.name, r.name>>, {})
    /\ UNCHANGED udbStorage

\* UPDATE storage.objects SET bucket_id, name WHERE the object is r, by uid.
UpdateObject(uid, r, bucket_id, name) ==
    /\ r \in storage_objects
    /\ LET new == Object(bucket_id, name)
           seen == ObjectVisible("UPDATE", uid, r) /\ ObjectVisible("SELECT", uid, r)
           ok == /\ seen
                 /\ ObjectAccepted("UPDATE", uid, new)
                 /\ ObjectVisible("SELECT", uid, new)
                 /\ new \notin storage_objects \ {r}
       IN /\ storage_objects' = IF ok THEN (storage_objects \ {r}) \cup {new}
                                ELSE storage_objects
          /\ last' = Statement("update_object", uid, ok, <<r.name, new.name>>, {})
    /\ UNCHANGED udbStorage

\* DELETE FROM storage.objects WHERE the object is r, by uid.
DeleteObject(uid, r) ==
    /\ r \in storage_objects
    /\ LET seen == ObjectVisible("DELETE", uid, r) /\ ObjectVisible("SELECT", uid, r)
       IN /\ storage_objects' = IF seen THEN storage_objects \ {r} ELSE storage_objects
          /\ last' = Statement("delete_object", uid, seen, <<r.name, r.name>>, {})
    /\ UNCHANGED udbStorage

\* An upload by the service role, which bypasses row-level security.
ServiceInsertObject(bucket_id, name) ==
    /\ Cardinality(storage_objects) < MaxRows
    /\ Object(bucket_id, name) \notin storage_objects
    /\ storage_objects' = storage_objects \cup {Object(bucket_id, name)}
    /\ last' = Statement("service_insert_object", NULL, TRUE, <<name, name>>, {})
    /\ UNCHANGED udbStorage

\* The owners and the anonymous caller upload, rename, move to another
\* bucket and delete; the service role uploads.
NextStorage ==
    \/ \E uid \in ObjectOwners \cup {NULL}, b \in Buckets, n \in ObjectNames :
           InsertObject(uid, b, n)
    \/ \E uid \in ObjectOwners \cup {NULL}, r \in storage_objects :
           \/ \E n \in ObjectNames : UpdateObject(uid, r, r.bucket_id, n)
           \/ \E b \in Buckets : UpdateObject(uid, r, b, r.name)
    \/ \E uid \in ObjectOwners \cup {NULL}, r \in storage_objects : DeleteObject(uid, r)
    \/ \E b \in Buckets, n \in ObjectNames : ServiceInsertObject(b, n)

SpecStorage == InitTables /\ [][NextStorage]_vars

ObjectStatements == {"insert_object", "update_object", "delete_object"}

\* C23: in each of the five buckets, an INSERT, UPDATE or DELETE of an     
\* object by a principal goes through only when the first folder segment   
\* of the object's path, before and after the statement, is the            
\* principal's identifier.                                                 
C23_ObjectWritesOnlyInOwnFolder ==
    last.op \in ObjectStatements /\ last.ok =>
        /\ OwnFolder(last.caller, last.arg[1])
        /\ OwnFolder(last.caller, last.arg[2])

\* A principal renamed an object inside its own folder of avatars.
C23_Witness ==
    /\ last.op = "update_object"
    /\ last.ok
    /\ last.arg[1] # last.arg[2]
    /\ Object("avatars", last.arg[2]) \in storage_objects


(***************************************************************************)
(* Admin status: profiles.is_admin and profiles.role.                      *)
(***************************************************************************)
\* C24: the two representations of admin status never drift: in every      
\* state the schema's own operations reach, a profile has is_admin = true  
\* if and only if its role is 'admin'.                                     
C24_AdminFlagMatchesRole ==
    \A p \in profiles : p.is_admin = TRUE <=> p.role = "admin"


\* The profiles whose role becomes admin in this step.
BecomeAdmin ==
    {p.id : p \in {q \in profiles' : q.role = "admin"}} \
    {p.id : p \in {q \in profiles : q.role = "admin"}}

\* C25: a principal whose role is not admin cannot, by its own profile     
\* updates or by calls of promote_to_admin, make its own or any other      
\* profile's role admin: a role changes to admin only in a statement of an 
\* existing admin (the service role changes no role here).                 
C25_OnlyAdminsMakeAdmins ==
    [][BecomeAdmin # {} => RoleIsAdmin(last'.caller)]_vars


(***************************************************************************)
(* The parties and the first status of an order.                           *)
(***************************************************************************)
\* C26: after an order has been created, no UPDATE the buyer policy or the 
\* seller policy lets through changes its buyer_id or its seller_id.       
C26_BuyerSellerConstant ==
    [][\A o \in orders : \A n \in orders' :
          n.id = o.id => n.buyer_id = o.buyer_id /\ n.seller_id = o.seller_id]_vars

\* C27: every order a client principal inserts under 'Buyers can create    
\* orders' has status pending_payment at creation.                         
C27_OrderStartsPendingPayment ==
    [][\A n \in orders' :
          (\A o \in orders : o.id # n.id) => n.status = "pending_payment"]_vars


(***************************************************************************)
(* get_or_create_cart. The function is not SECURITY DEFINER: its SELECT    *)
(* and its INSERT run under the policies of shopping_carts for the caller. *)
(***************************************************************************)
MaxCalls == 2

\* "Users can view their own cart": FOR SELECT USING (auth.uid() = user_id)
CartsSelectUsing(uid, c) == SqlEq(uid, c.user_id)

\* SELECT id INTO cart_uuid FROM shopping_carts WHERE user_id = user_uuid
\* AND expires_at > NOW(), by uid: NULL when no row is found.
SelectCartInto(uid, user_uuid) ==
    LET found == {c \in shopping_carts : /\ CartsSelectUsing(uid, c)
                                         /\ c.user_id = user_uuid
                                         /\ c.expires_at > now}
    IN IF found = {} THEN NULL ELSE (CHOOSE c \in found : TRUE).id

\* The row INSERT INTO shopping_carts (user_id) VALUES (user_uuid) writes.
NewCart(user_uuid) ==
    LET ids == FreshIds(shopping_carts, MaxUsers + 1)
    IN [id |-> CHOOSE i \in ids : \A j \in ids : i <= j,
        user_id |-> user_uuid, expires_at |-> now + CartLifetime]

\* The error the INSERT of the function meets, by uid: the policy, the
\* foreign key, then UNIQUE(user_id).
InsertCartError(uid, user_uuid) ==
    IF ~CartsInsertCheck(uid, NewCart(user_uuid)) THEN "row_level_security"
    ELSE IF \A p \in profiles : p.id # user_uuid THEN "foreign_key"
    ELSE IF \E c \in shopping_carts : c.user_id = user_uuid THEN "unique_violation"
    ELSE "none"

udbCarts == <<auth_users, profiles, user_stats_summary, profile_setup_progress,
              admin_approvals, admin_audit_log, listings, orders, generated,
              tables, schema, register, storage_objects>>

\* SELECT get_or_create_cart(user_uuid), by uid, with no other statement
\* between its SELECT and its INSERT. rows holds the id it returns.
get_or_create_cart(uid, user_uuid) ==
    /\ LET cart_uuid == SelectCartInto(uid, user_uuid)
           error == IF cart_uuid # NULL THEN "none" ELSE InsertCartError(uid, user_uuid)
       IN /\ shopping_carts' = IF cart_uuid = NULL /\ error = "none"
                               THEN shopping_carts \cup {NewCart(user_uuid)}
                               ELSE shopping_carts
          /\ last' = Statement("get_or_create_cart", uid, error = "none",
                               <<user_uuid, error>>,
                               IF error # "none" THEN {}
                               ELSE IF cart_uuid # NULL THEN {cart_uuid}
                               ELSE {NewCart(user_uuid).id})
    /\ UNCHANGED <<now, cart_calls, udbCarts>>

\* A call of get_or_create_cart(uid) by uid starts and runs its SELECT.
\* no_cart records whether shopping_carts held no row of the user then.
CallSelect(uid) ==
    /\ Len(cart_calls) < MaxCalls
    /\ cart_calls' = Append(cart_calls,
                            [pc |-> "selected", user_uuid |-> uid,
                             no_cart |-> \A c \in shopping_carts : c.user_id # uid,
                             cart_uuid |-> SelectCartInto(uid, uid)])
    /\ UNCHANGED <<now, shopping_carts, last, udbCarts>>

\* Call i goes on after its SELECT: the INSERT where cart_uuid IS NULL, then
\* RETURN cart_uuid; an error of the INSERT ends the call.
CallFinish(i) ==
    /\ i \in 1..Len(cart_calls)
    /\ cart_calls[i].pc = "selected"
    /\ LET call == cart_calls[i]
           error == IF call.cart_uuid # NULL THEN "none"
                    ELSE InsertCartError(call.user_uuid, call.user_uuid)
           inserts == call.cart_uuid = NULL /\ error = "none"
       IN /\ shopping_carts' = IF inserts
                               THEN shopping_carts \cup {NewCart(call.user_uuid)}
                               ELSE shopping_carts
          /\ cart_calls' =
                 [cart_calls EXCEPT
                     ![i] = IF error # "none" THEN [call EXCEPT !.pc = "raised"]
                            ELSE [call EXCEPT
                                     !.pc = "returned",
                                     !.cart_uuid = IF inserts
                                                   THEN NewCart(call.user_uuid).id
                                                   ELSE call.cart_uuid]]
    /\ UNCHANGED <<now, last, udbCarts>>

\* The profiles of the seed; user 1 has the cart its sign-up created, the
\* others, whose profiles came in under "Users can insert own profile", have
\* none yet.
InitCarts ==
    /\ now = 0
    /\ auth_users = SeededUsers
    /\ profiles = SeededProfiles(SeedRoles)
    /\ shopping_carts = {c \in SeededCarts : c.user_id = 1}
    /\ user_stats_summary = SeededStats
    /\ profile_setup_progress = {}
    /\ admin_approvals = {}
    /\ admin_audit_log = {}
    /\ listings = {}
    /\ orders = {}
    /\ generated = [u \in UserIds |-> <<>>]
    /\ tables = NoRows
    /\ schema = NotReplayed
    /\ register = PageLoaded
    /\ storage_objects = {}
    /\ cart_calls = NoCalls
    /\ last = NoStatement

NextCarts ==
    \/ Tick
    \/ \E uid \in UserIds, user_uuid \in UserIds : get_or_create_cart(uid, user_uuid)
    \/ \E uid \in UserIds : CallSelect(uid)
    \/ \E i \in 1..MaxCalls : CallFinish(i)

SpecCarts == InitCarts /\ [][NextCarts]_vars

\* C28: for an existing profile u with no cart, an unexpired cart or an    
\* expired cart, get_or_create_cart(u) called by u returns without error   
\* the id of a cart whose user_id is u, and afterwards exactly one row of  
\* shopping_carts exists for u.                                            
C28_CartReturnedAndUnique ==
    (last.op = "get_or_create_cart" /\ last.caller = last.arg[1]) =>
        /\ last.ok
        /\ \E c \in shopping_carts : last.rows = {c.id} /\ c.user_id = last.arg[1]
        /\ Cardinality({c \in shopping_carts : c.user_id = last.arg[1]}) = 1

\* C29: when two calls of get_or_create_cart for the same user, who has no 
\* cart, both run their SELECT before either runs its INSERT, both return  
\* the same cart id, neither raises, and exactly one cart row exists for   
\* the user afterwards.                                                    
C29_ConcurrentCallsAgree ==
    \A i \in 1..Len(cart_calls), j \in 1..Len(cart_calls) :
        (/\ i # j
         /\ cart_calls[i].user_uuid = cart_calls[j].user_uuid
         /\ cart_calls[i].no_cart /\ cart_calls[j].no_cart
         /\ cart_calls[i].pc # "selected" /\ cart_calls[j].pc # "selected") =>
            /\ cart_calls[i].pc = "returned" /\ cart_calls[j].pc = "returned"
            /\ cart_calls[i].cart_uuid = cart_calls[j].cart_uuid
            /\ Cardinality({c \in shopping_carts :
                               c.user_id = cart_calls[i].user_uuid}) = 1


(***************************************************************************)
(* Sign-ups whose e-mails share the local part.                            *)
(***************************************************************************)
\* C30: the bootstrap succeeds for every new principal whose e-mail        
\* differs from the e-mail of every existing principal: a sign-up in which 
\* no insert fails for a reason outside the schema leaves a profile whose  
\* username is the lower-cased local part of the e-mail, also when another 
\* profile has the same local part under another domain.                   
C30_BootstrapSucceedsForNewEmail ==
    [][\A e \in Emails :
          InsertAuthUser(e, 0) =>
              /\ last'.ok
              /\ \E p \in profiles' : /\ p.id = last'.arg[1]
                                      /\ p.email = e
                                      /\ p.username = username(e)]_vars

====
